---------------------------- MODULE Spec2Model ----------------------------
(***************************************************************************)
(* A model of the ZTCP protocol engine of zkteco-js (src/src/ztcp.js): the  *)
(* command exchange (executeCmd / writeMessage), socket teardown, the bulk  *)
(* read (readWithBuffer / requestData / sendChunkRequest), the handshake    *)
(* (connect / connectWithAuth), getUsers and the real-time event stream     *)
(* (getRealTimeLogs).  getAttendances has the control flow of getUsers,     *)
(* with records of another size.                                            *)
(*                                                                         *)
(* Buffers are sequences of bytes (naturals below 256).  One step of the    *)
(* model is one turn of the Node.js event loop: a caller's synchronous      *)
(* code, a socket event ('data', 'close'), a write callback or a timer,     *)
(* each together with the promise continuations it releases.                *)
(*                                                                         *)
(* The device and the network are the environment.  The device answers the *)
(* frames written to the socket in order, or not at all; it may emit        *)
(* unsolicited event frames.  Every 'data' event carries one whole frame,   *)
(* or one of the two segments of a frame that TCP delivered in two parts.   *)
(* A chunk request is answered with a PREPARE_DATA frame (8 byte payload)   *)
(* followed by a DATA frame holding the chunk, which is the framing the     *)
(* "+ 8" accounting of readWithBuffer.handleOnData is written for.          *)
(***************************************************************************)
EXTENDS Integers, Sequences, FiniteSets, TLC

VARIABLES
    sock,       \* this.socket: "open", "ended" (end() called, reference kept), "null"
    timeout,    \* this.timeout as given to the constructor (0: none)
    facade,     \* the ZktecoJs object of index.js that owns this ZTCP instance
    sessionId,  \* this.sessionId (null is modelled as 0)
    replyId,    \* this.replyId
    sent,       \* the frames handed to socket.write(), in order
    served,     \* how many of them the device has answered
    inbox,      \* byte blocks on their way to the client, one per 'data' event
    events,     \* the number of unsolicited event frames the device has emitted
    calls,      \* the executeCmd calls: promise, data listener, timer, write callback
    serial,     \* history: every executeCmd so far was issued with no other one pending
    rd,         \* the closure of the requestData call of the bulk read
    rb,         \* the closure of the readWithBuffer call
    now,        \* the clock, in milliseconds
    op,         \* the running method of the instance that awaits the calls above
    rt,         \* the real-time event stream: its data listeners and its callback
    authTimestamp  \* this.authTimestamp (undefined is modelled as 0)

vars == <<sock, timeout, facade, sessionId, replyId, sent, served, inbox, events,
          calls, serial, rd, rb, now, op, rt, authTimestamp>>

----------------------------------------------------------------------------
(* Bounds of the model *)

MaxCalls == 2
MaxEvents == 1
MaxChunkBound == 2
MaxTicks == 3
TickMs == 5000
MaxSubscribes == 2
MaxReplyId == 4
MaxSockets == 2
MaxFrames == 3
MaxSessionFrames == 4

CallIds == 1..MaxCalls

----------------------------------------------------------------------------
(* Protocol constants (helper/command) *)

CMD_CONNECT == 1000
CMD_ACK_OK == 2000
CMD_ACK_ERROR == 2001
CMD_PREPARE_DATA == 1500
CMD_DATA == 1501
CMD_FREE_DATA == 1502
CMD_DATA_WRRQ == 1503
CMD_DATA_RDY == 1504
CMD_REG_EVENT == 500
CMD_AUTH == 1102
CMD_EXIT == 1001
CMD_ENABLEDEVICE == 1002
CMD_DISABLEDEVICE == 1003
CMD_CAPTUREIMAGE == 1012
CMD_REFRESHDATA == 1013
CMD_CHECKSUM_BUFFER == 119
CMD_TMP_WRITE == 87

MAX_CHUNK == MaxChunkBound

(* the widths of the outer transport header and of both headers together *)
OUTER == 8
HEADERS == 16

(* the inactivity window of the chunk phase of readWithBuffer *)
BULK_TIMEOUT == 10000

(* the largest total size the device announces *)
MaxSize == 2 * MAX_CHUNK + 1

REQUEST_DATA == <<1, 9, 0, 5, 0, 0, 0, 0, 0, 0, 0>>

DISABLE_DEVICE == <<0, 0, 0, 0>>

----------------------------------------------------------------------------
(* Buffers *)

Min(a, b) == IF a < b THEN a ELSE b

(* buf.subarray(from, to): zero-based, end exclusive, clamped to the buffer *)
Subarray(buf, from, to) ==
    SubSeq(buf, Min(from, Len(buf)) + 1, Min(to, Len(buf)))

SubarrayFrom(buf, from) == Subarray(buf, from, Len(buf))

(* buf.readUIntLE(off, 2) and buf.readUIntLE(off, 4) *)
ReadU16(buf, off) == buf[off + 1] + 256 * buf[off + 2]

ReadU32(buf, off) ==
    buf[off + 1] + 256 * buf[off + 2] + 65536 * buf[off + 3] + 16777216 * buf[off + 4]

U16(n) == <<n % 256, (n \div 256) % 256>>

U32(n) == <<n % 256, (n \div 256) % 256, (n \div 65536) % 256, (n \div 16777216) % 256>>

Sync == <<80, 80, 130, 125>>

(* createTCPHeader: outer header {sync, inner length, reserved}, inner header
   {command, checksum, session id, sequence id}, payload *)
createTCPHeader(command, session, reply, data) ==
    Sync \o U16(OUTER + Len(data)) \o <<0, 0>>
         \o U16(command) \o <<0, 0>> \o U16(session) \o U16(reply) \o data

HasOuter(buf) == Len(buf) >= OUTER /\ SubSeq(buf, 1, 4) = Sync

(* removeTcpHeader: strips the outer transport header *)
removeTcpHeader(buf) == IF HasOuter(buf) THEN SubarrayFrom(buf, OUTER) ELSE buf

(* decodeTCPHeader(buf).commandId *)
CommandId(buf) == IF Len(buf) >= 10 THEN ReadU16(buf, 8) ELSE 0

FrameSeq(buf) == ReadU16(buf, 14)

(* checkNotEventTCP: TRUE for a frame that carries the event command code *)
checkNotEventTCP(data) ==
    HasOuter(data) /\ Len(data) >= HEADERS /\ CommandId(data) = CMD_REG_EVENT

----------------------------------------------------------------------------
(* The executeCmd calls *)

NoCall == [pst |-> "none", cmd |-> 0, seq |-> 0, wcb |-> FALSE, handed |-> FALSE,
           listener |-> FALSE, timer |-> FALSE, reply |-> <<>>, raw |-> <<>>,
           err |-> "none", lost |-> FALSE]

(* requestData: tw, te, td are the timers set by the write callback, by a reply
   that is not CMD_DATA and by a CMD_DATA reply; ref names the one the variable
   `timer` holds *)
NoRd == [pst |-> "none", listener |-> FALSE, wcb |-> FALSE, handed |-> FALSE,
         replyBuffer |-> <<>>, tw |-> FALSE, te |-> FALSE, td |-> FALSE,
         ref |-> "none", data |-> <<>>, err |-> "none"]

(* readWithBuffer: timer is the deadline of the inactivity timer, or -1 *)
NoRb == [pst |-> "none", phase |-> "idle", size |-> 0, remain |-> 0,
         numberChunks |-> 0, totalPackets |-> 0, replyData |-> <<>>,
         totalBuffer |-> <<>>, realTotalBuffer |-> <<>>, timer |-> -1,
         listener |-> FALSE, closeL |-> FALSE, data |-> <<>>, err |-> "none",
         mode |-> 0, progress |-> <<>>, lost |-> FALSE, restarts |-> 0]

(* the method of the instance that is running: name is the method, pc the await
   it is suspended at, outcome "returned" or "threw"; result is the returned
   object, reply and connectReply the buffers that executeCmd gave it for
   CMD_AUTH and for CMD_CONNECT; afterRead is the
   number of frames written when its bulk read settled (-1: not settled) and
   openAfterRead whether the socket was open then *)
NoOp == [name |-> "none", pc |-> "idle", outcome |-> "none", err |-> "none",
         result |-> <<>>, reply |-> <<>>, connectReply |-> <<>>, afterRead |-> -1,
         openAfterRead |-> FALSE, step |-> 0, pending |-> "none",
         disabled |-> FALSE, remaining |-> 0, userSn |-> 0, templateData |-> <<>>]

(* getRealTimeLogs: listeners is the number of data listeners it has attached,
   calls the number of calls that returned, delivered the number of records
   handed to cb; history: subscribed is set by a call that returned on an open
   socket, received counts the event frames of more than 16 bytes received
   since *)
NoRt == [listeners |-> 0, calls |-> 0, delivered |-> 0, subscribed |-> FALSE,
         received |-> 0, stale |-> 0, late |-> 0]

(* the ZktecoJs object after its constructor; the fields below `timer` are the
   position of its running method, the connectionType it was called with and
   what it made of it, and a record of what the sockets of the instance did: `gen`
   numbers the sockets createSocket has made, `closing` holds the sockets that
   were ended and have not yet emitted 'close', `authed` says that
   connectWithAuth has succeeded on the socket in use, `clearedBy` and
   `clearedOf` name the socket whose event last cleared a set reference and the
   socket the reference pointed to *)
NoFacade == [connectionType |-> "null", interval |-> FALSE, timer |-> FALSE,
             name |-> "none", pc |-> "idle", outcome |-> "none", err |-> "none",
             result |-> "none", tick |-> FALSE,
             calledWith |-> "null",
             gen |-> 0, closing |-> {}, authed |-> FALSE,
             clearedBy |-> 0, clearedOf |-> 0]

Pending(c) == calls[c].pst = "pending"

(* a wrong offset of the session id in the reply to CMD_CONNECT *)
connectSessionAtSix(rReply, current) ==
    IF Len(rReply) >= 8 THEN ReadU16(rReply, 6) ELSE current

(* executeCmd: the session id taken from the reply to CMD_CONNECT *)
connectSession(rReply, current) ==
    IF Len(rReply) >= 6 THEN ReadU16(rReply, 4) ELSE current

(* the continuation of executeCmd, had it removed the inner header as well *)
onDataStripsBoth(call, data) ==
    [call EXCEPT !.listener = FALSE,
                 !.timer = FALSE,
                 !.pst = IF call.pst = "pending" THEN "resolved" ELSE @,
                 !.raw = IF call.pst = "pending" THEN data ELSE @,
                 !.reply = IF call.pst = "pending"
                           THEN SubarrayFrom(removeTcpHeader(data), OUTER) ELSE @]

(* writeMessage.onData, with the continuation of executeCmd on the reply *)
onData(call, data) ==
    [call EXCEPT !.listener = FALSE,
                 !.timer = FALSE,
                 !.pst = IF call.pst = "pending" THEN "resolved" ELSE @,
                 !.raw = IF call.pst = "pending" THEN data ELSE @,
                 !.reply = IF call.pst = "pending" THEN removeTcpHeader(data) ELSE @]

(* the timeout callback, had it left its data listener attached *)
onTimeoutKeepsListener(call) ==
    [call EXCEPT !.timer = FALSE,
                 !.pst = IF call.pst = "pending" THEN "rejected" ELSE @,
                 !.err = IF call.pst = "pending" THEN "TIMEOUT_ON_WRITING_MESSAGE" ELSE @]

(* the timeout callback of writeMessage *)
onTimeout(call) ==
    [call EXCEPT !.timer = FALSE,
                 !.listener = IF sock # "null" THEN FALSE ELSE @,
                 !.pst = IF call.pst = "pending" THEN "rejected" ELSE @,
                 !.err = IF call.pst = "pending" THEN "TIMEOUT_ON_WRITING_MESSAGE" ELSE @]

(* the write callback of writeMessage *)
onWritten(call, failed) ==
    IF failed
    THEN [call EXCEPT !.wcb = FALSE,
                      !.listener = IF sock # "null" THEN FALSE ELSE @,
                      !.pst = IF call.pst = "pending" THEN "rejected" ELSE @,
                      !.err = IF call.pst = "pending" THEN "WRITE_ERROR" ELSE @]
    ELSE [call EXCEPT !.wcb = FALSE,
                      !.timer = (timeout # 0)]

(* executeCmd up to the await, with writeMessage up to socket.write: what it
   does to the ZTCP instance and its socket *)
ztcpExecuteCmd(c, command, data) ==
    LET isConnect == command = CMD_CONNECT
        newSession == IF isConnect THEN 0 ELSE sessionId
        newReply == IF isConnect THEN 0 ELSE replyId + 1
        buf == createTCPHeader(command, newSession, newReply, data)
    IN  /\ sessionId' = newSession
        /\ replyId' = newReply
        /\ serial' = (serial /\ \A d \in CallIds : ~Pending(d))
        /\ IF sock = "null"
           THEN /\ calls' = [calls EXCEPT ![c] =
                      [NoCall EXCEPT !.pst = "rejected", !.cmd = command,
                                     !.seq = newReply,
                                     !.err = "Socket is not initialized"]]
                /\ sent' = sent
           ELSE /\ calls' = [calls EXCEPT ![c] =
                      [NoCall EXCEPT !.pst = "pending", !.cmd = command,
                                     !.seq = newReply, !.listener = TRUE,
                                     !.wcb = TRUE, !.handed = (sock = "open")]]
                /\ sent' = IF sock = "open" THEN Append(sent, buf) ELSE sent
        /\ UNCHANGED <<rt, authTimestamp, sock, timeout, served, inbox, events, rd, rb,
                       now>>

(* executeCmd called on the ZTCP instance, by one of its methods or by a caller
   that holds it: the object of index.js is not involved *)
executeCmd(c, command, data) ==
    /\ ztcpExecuteCmd(c, command, data)
    /\ UNCHANGED facade

(* a caller of the instance issues a command without data *)
ExecuteCmd(c, command) ==
    /\ calls[c].pst = "none"
    /\ \A d \in CallIds : d < c => calls[d].pst # "none"
    /\ executeCmd(c, command, <<>>)
    /\ UNCHANGED op

WriteOk(c) ==
    /\ calls[c].wcb
    /\ calls[c].handed
    /\ calls' = [calls EXCEPT ![c] = onWritten(calls[c], FALSE)]
    /\ UNCHANGED <<op, rt, authTimestamp, sock, timeout, facade, sessionId, replyId, sent,
                   served, inbox, events,
                   serial, rd, rb, now>>

WriteErr(c) ==
    /\ calls[c].wcb
    /\ sock # "open"
    /\ calls' = [calls EXCEPT ![c] = onWritten(calls[c], TRUE)]
    /\ UNCHANGED <<op, rt, authTimestamp, sock, timeout, facade, sessionId, replyId, sent,
                   served, inbox, events,
                   serial, rd, rb, now>>

Timeout(c) ==
    /\ calls[c].timer
    /\ calls' = [calls EXCEPT ![c] = onTimeout(calls[c])]
    /\ UNCHANGED <<op, rt, authTimestamp, sock, timeout, facade, sessionId, replyId, sent,
                   served, inbox, events,
                   serial, rd, rb, now>>

----------------------------------------------------------------------------
(* The bulk read: requestData *)

(* requestData.internalCallback *)
RdInternalCallback(r, data) ==
    [r EXCEPT !.listener = IF sock # "null" THEN FALSE ELSE @,
              !.tw = IF r.ref = "w" THEN FALSE ELSE @,
              !.te = IF r.ref = "e" THEN FALSE ELSE @,
              !.td = IF r.ref = "d" THEN FALSE ELSE @,
              !.pst = IF r.pst = "pending" THEN "resolved" ELSE @,
              !.data = IF r.pst = "pending" THEN data ELSE @]

(* a timer of requestData that rejects *)
RdReject(r, kind, message) ==
    [r EXCEPT !.listener = IF sock # "null" THEN FALSE ELSE @,
              !.tw = IF kind = "w" THEN FALSE ELSE @,
              !.te = IF kind = "e" THEN FALSE ELSE @,
              !.wcb = IF kind = "write" THEN FALSE ELSE @,
              !.pst = IF r.pst = "pending" THEN "rejected" ELSE @,
              !.err = IF r.pst = "pending" THEN message ELSE @]

(* requestData.handleOnData *)
RdHandleOnData(r, data) ==
    LET buf == r.replyBuffer \o data
        r1 == [r EXCEPT !.replyBuffer = buf]
        r2 == [r1 EXCEPT !.te = TRUE, !.ref = "e"]
    IN  IF checkNotEventTCP(data) THEN r1
        ELSE IF CommandId(Subarray(buf, 0, HEADERS)) = CMD_DATA
        THEN [r1 EXCEPT !.td = TRUE, !.ref = "d"]
        ELSE IF Len(data) >= 6 /\ ReadU16(data, 4) > 8
        THEN RdInternalCallback(r2, data)
        ELSE r2

----------------------------------------------------------------------------
(* The bulk read: readWithBuffer *)

(* the loop, had it stopped before the request for the remainder *)
ChunkPlanWithoutLast(size) ==
    LET remain == size % MAX_CHUNK
        numberChunks == (size - remain) \div MAX_CHUNK
    IN  [k \in 1..numberChunks |-> <<(k - 1) * MAX_CHUNK, MAX_CHUNK>>]

(* the chunk requests of the loop of readWithBuffer, as <<start, size>> *)
ChunkPlan(size) ==
    LET remain == size % MAX_CHUNK
        numberChunks == (size - remain) \div MAX_CHUNK
    IN  [k \in 1..(numberChunks + 1) |->
            IF k - 1 = numberChunks
            THEN <<numberChunks * MAX_CHUNK, remain>>
            ELSE <<(k - 1) * MAX_CHUNK, MAX_CHUNK>>]

(* sendChunkRequest, had it encoded the frame with the replyId of before the
   bulk read *)
sendChunkRequestStaleId(start, size, reply) ==
    createTCPHeader(CMD_DATA_RDY, sessionId, replyId, U32(start) \o U32(size))

(* the frame sendChunkRequest writes, given the replyId it has incremented *)
sendChunkRequest(start, size, reply) ==
    createTCPHeader(CMD_DATA_RDY, sessionId, reply, U32(start) \o U32(size))

ChunkFrames(size) ==
    [k \in 1..Len(ChunkPlan(size)) |->
        sendChunkRequest(ChunkPlan(size)[k][1], ChunkPlan(size)[k][2], replyId + k)]

(* readWithBuffer.internalCallback *)
internalCallback(b, data, err) ==
    [b EXCEPT !.timer = -1,
              !.pst = IF b.pst = "pending" THEN "resolved" ELSE @,
              !.data = IF b.pst = "pending" THEN data ELSE @,
              !.err = IF b.pst = "pending" THEN err ELSE @]

(* readWithBuffer after `await this.requestData(buf)` resolved with reply *)
ReadCont(b, reply) ==
    LET commandId == CommandId(Subarray(reply, 0, HEADERS))
        recvData == SubarrayFrom(reply, HEADERS)
        size == ReadU32(recvData, 1)
        remain == size % MAX_CHUNK
        numberChunks == (size - remain) \div MAX_CHUNK
    IN  IF commandId = CMD_DATA
        THEN [b EXCEPT !.pst = "resolved", !.phase = "inline",
                       !.data = recvData, !.mode = 8]
        ELSE IF commandId \in {CMD_ACK_OK, CMD_PREPARE_DATA}
        THEN IF Len(recvData) < 5
             THEN [b EXCEPT !.phase = "threw"]
             ELSE [b EXCEPT !.phase = "chunk", !.size = size, !.remain = remain,
                            !.numberChunks = numberChunks,
                            !.totalPackets = numberChunks + (IF remain > 0 THEN 1 ELSE 0),
                            !.timer = now + BULK_TIMEOUT,
                            !.listener = TRUE, !.closeL = TRUE]
        ELSE [b EXCEPT !.pst = "rejected", !.phase = "failed",
                       !.err = "ERROR_IN_UNHANDLE_CMD"]

(* handleOnData, had it left the inactivity timer alone *)
handleOnDataNoRestart(b, reply) ==
    LET totalBuffer == b.totalBuffer \o reply
        packetLength == ReadU16(totalBuffer, 4)
        realTotalBuffer == b.realTotalBuffer \o Subarray(totalBuffer, HEADERS, 8 + packetLength)
        replyData == b.replyData \o SubarrayFrom(realTotalBuffer, 8)
        b2 == [b EXCEPT !.replyData = replyData, !.totalBuffer = <<>>,
                        !.realTotalBuffer = <<>>, !.totalPackets = @ - 1,
                        !.progress = Append(@, <<Len(replyData), b.size>>)]
    IN  IF checkNotEventTCP(reply) THEN b
        ELSE IF Len(totalBuffer) < 6 \/ Len(totalBuffer) < 8 + packetLength
        THEN [b EXCEPT !.totalBuffer = totalBuffer]
        ELSE IF \/ (b.totalPackets > 1 /\ Len(realTotalBuffer) = MAX_CHUNK + 8)
                \/ (b.totalPackets = 1 /\ Len(realTotalBuffer) = b.remain + 8)
        THEN IF b2.totalPackets <= 0 THEN internalCallback(b2, replyData, "none") ELSE b2
        ELSE [b EXCEPT !.realTotalBuffer = realTotalBuffer,
                       !.totalBuffer = SubarrayFrom(totalBuffer, 8 + packetLength)]

(* handleOnData, had it counted a complete chunk whatever the number of chunks
   still outstanding *)
handleOnDataAnyCount(b, reply) ==
    LET b1 == [b EXCEPT !.timer = now + BULK_TIMEOUT, !.restarts = Min(@ + 1, 1)]
        totalBuffer == b.totalBuffer \o reply
        packetLength == ReadU16(totalBuffer, 4)
        realTotalBuffer == b.realTotalBuffer \o Subarray(totalBuffer, HEADERS, 8 + packetLength)
        replyData == b.replyData \o SubarrayFrom(realTotalBuffer, 8)
        b2 == [b1 EXCEPT !.replyData = replyData, !.totalBuffer = <<>>,
                         !.realTotalBuffer = <<>>, !.totalPackets = @ - 1,
                         !.progress = Append(@, <<Len(replyData), b.size>>)]
    IN  IF checkNotEventTCP(reply) THEN b
        ELSE IF Len(totalBuffer) < 6 \/ Len(totalBuffer) < 8 + packetLength
        THEN [b1 EXCEPT !.totalBuffer = totalBuffer]
        ELSE IF \/ Len(realTotalBuffer) = MAX_CHUNK + 8
                \/ Len(realTotalBuffer) = b.remain + 8
        THEN IF b2.totalPackets <= 0 THEN internalCallback(b2, replyData, "none") ELSE b2
        ELSE [b1 EXCEPT !.realTotalBuffer = realTotalBuffer,
                        !.totalBuffer = SubarrayFrom(totalBuffer, 8 + packetLength)]

(* handleOnData, had it reported the length of the chunk instead of the bytes so far *)
handleOnDataChunkLength(b, reply) ==
    LET b1 == [b EXCEPT !.timer = now + BULK_TIMEOUT, !.restarts = Min(@ + 1, 1)]
        totalBuffer == b.totalBuffer \o reply
        packetLength == ReadU16(totalBuffer, 4)
        realTotalBuffer == b.realTotalBuffer \o Subarray(totalBuffer, HEADERS, 8 + packetLength)
        replyData == b.replyData \o SubarrayFrom(realTotalBuffer, 8)
        b2 == [b1 EXCEPT !.replyData = replyData, !.totalBuffer = <<>>,
                         !.realTotalBuffer = <<>>, !.totalPackets = @ - 1,
                         !.progress = Append(@, <<Len(SubarrayFrom(realTotalBuffer, 8)),
                                                  b.size>>)]
    IN  IF checkNotEventTCP(reply) THEN b
        ELSE IF Len(totalBuffer) < 6 \/ Len(totalBuffer) < 8 + packetLength
        THEN [b1 EXCEPT !.totalBuffer = totalBuffer]
        ELSE IF \/ (b.totalPackets > 1 /\ Len(realTotalBuffer) = MAX_CHUNK + 8)
                \/ (b.totalPackets = 1 /\ Len(realTotalBuffer) = b.remain + 8)
        THEN IF b2.totalPackets <= 0 THEN internalCallback(b2, replyData, "none") ELSE b2
        ELSE [b1 EXCEPT !.realTotalBuffer = realTotalBuffer,
                        !.totalBuffer = SubarrayFrom(totalBuffer, 8 + packetLength)]

(* readWithBuffer.handleOnData *)
handleOnData(b, reply) ==
    LET b1 == [b EXCEPT !.timer = now + BULK_TIMEOUT, !.restarts = Min(@ + 1, 1)]
        totalBuffer == b.totalBuffer \o reply
        packetLength == ReadU16(totalBuffer, 4)
        realTotalBuffer == b.realTotalBuffer \o Subarray(totalBuffer, HEADERS, 8 + packetLength)
        replyData == b.replyData \o SubarrayFrom(realTotalBuffer, 8)
        b2 == [b1 EXCEPT !.replyData = replyData, !.totalBuffer = <<>>,
                         !.realTotalBuffer = <<>>, !.totalPackets = @ - 1,
                         !.progress = Append(@, <<Len(replyData), b.size>>)]
    IN  IF checkNotEventTCP(reply) THEN b
        ELSE IF Len(totalBuffer) < 6 \/ Len(totalBuffer) < 8 + packetLength
        THEN [b1 EXCEPT !.totalBuffer = totalBuffer]
        ELSE IF \/ (b.totalPackets > 1 /\ Len(realTotalBuffer) = MAX_CHUNK + 8)
                \/ (b.totalPackets = 1 /\ Len(realTotalBuffer) = b.remain + 8)
        THEN IF b2.totalPackets <= 0 THEN internalCallback(b2, replyData, "none") ELSE b2
        ELSE [b1 EXCEPT !.realTotalBuffer = realTotalBuffer,
                        !.totalBuffer = SubarrayFrom(totalBuffer, 8 + packetLength)]

(* the 'close' listener, had it passed the buffer readWithBuffer started with *)
onCloseEmptyBuffer(b) ==
    [internalCallback(b, <<>>, "Socket is disconnected unexpectedly")
       EXCEPT !.closeL = FALSE]

(* the listener readWithBuffer attaches to 'close' *)
onClose(b) == [internalCallback(b, b.replyData, "Socket is disconnected unexpectedly")
                 EXCEPT !.closeL = FALSE]

(* the callback of the inactivity timer *)
onBulkTimeout(b) ==
    internalCallback(b, b.replyData,
                     IF b.restarts = 0 THEN "TIMEOUT WHEN RECEIVING PACKET"
                     ELSE "TIME OUT !! PACKETS REMAIN !")

(* what a step that settles requestData releases in readWithBuffer *)
RbAfter(r0, r1) ==
    IF r0.pst = "pending" /\ r1.pst = "resolved" THEN ReadCont(rb, r1.data)
    ELSE IF r0.pst = "pending" /\ r1.pst = "rejected"
    THEN [rb EXCEPT !.pst = "rejected", !.phase = "failed", !.err = r1.err]
    ELSE rb

SentAfter(b) ==
    IF rb.phase # "chunk" /\ b.phase = "chunk" /\ sock = "open"
    THEN sent \o ChunkFrames(b.size) ELSE sent

ReplyIdAfter(b) ==
    IF rb.phase # "chunk" /\ b.phase = "chunk"
    THEN replyId + Len(ChunkPlan(b.size)) ELSE replyId

(* readWithBuffer up to `await this.requestData(buf)`, requestData up to the write *)
readWithBufferStart ==
    /\ rb.pst = "none"
    /\ replyId' = replyId + 1
    /\ IF sock = "null"
       THEN /\ rd' = [NoRd EXCEPT !.pst = "rejected", !.err = "SOCKET_NOT_INITIALIZED"]
            /\ rb' = [NoRb EXCEPT !.pst = "rejected", !.phase = "failed",
                                  !.err = "SOCKET_NOT_INITIALIZED"]
            /\ sent' = sent
       ELSE /\ rd' = [NoRd EXCEPT !.pst = "pending", !.listener = TRUE, !.wcb = TRUE,
                                  !.handed = (sock = "open")]
            /\ rb' = [NoRb EXCEPT !.pst = "pending", !.phase = "request"]
            /\ sent' = IF sock = "open"
                       THEN Append(sent, createTCPHeader(CMD_DATA_WRRQ, sessionId,
                                                         replyId + 1, REQUEST_DATA))
                       ELSE sent
    /\ UNCHANGED <<rt, authTimestamp, sock, timeout, facade, sessionId, served, inbox, events,
                   calls, serial, now>>

(* a caller of the instance starts a bulk read *)
readWithBuffer ==
    /\ readWithBufferStart
    /\ UNCHANGED op

RdWriteOk ==
    /\ rd.wcb
    /\ rd.handed
    /\ rd' = [rd EXCEPT !.wcb = FALSE, !.tw = TRUE, !.ref = "w"]
    /\ UNCHANGED <<op, rt, authTimestamp, sock, timeout, facade, sessionId, replyId, sent,
                   served, inbox, events,
                   calls, serial, rb, now>>

RdWriteErr ==
    /\ rd.wcb
    /\ sock # "open"
    /\ rd' = RdReject(rd, "write", "WRITE_ERROR")
    /\ rb' = RbAfter(rd, rd')
    /\ UNCHANGED <<op, rt, authTimestamp, sock, timeout, facade, sessionId, replyId, sent,
                   served, inbox, events,
                   calls, serial, now>>

RdTimeoutWrite ==
    /\ rd.tw
    /\ rd' = RdReject(rd, "w", "TIMEOUT_IN_RECEIVING_RESPONSE_AFTER_REQUESTING_DATA")
    /\ rb' = RbAfter(rd, rd')
    /\ UNCHANGED <<op, rt, authTimestamp, sock, timeout, facade, sessionId, replyId, sent,
                   served, inbox, events,
                   calls, serial, now>>

RdTimeoutError ==
    /\ rd.te
    /\ rd' = RdReject(rd, "e", "TIMEOUT_ON_RECEIVING_REQUEST_DATA")
    /\ rb' = RbAfter(rd, rd')
    /\ UNCHANGED <<op, rt, authTimestamp, sock, timeout, facade, sessionId, replyId, sent,
                   served, inbox, events,
                   calls, serial, now>>

RdTimeoutData ==
    /\ rd.td
    /\ rd' = RdInternalCallback([rd EXCEPT !.td = FALSE], rd.replyBuffer)
    /\ rb' = RbAfter(rd, rd')
    /\ sent' = SentAfter(rb')
    /\ replyId' = ReplyIdAfter(rb')
    /\ UNCHANGED <<op, rt, authTimestamp, sock, timeout, facade, sessionId, served, inbox,
                   events, calls, serial, now>>

BulkTimeout ==
    /\ rb.timer >= 0
    /\ now >= rb.timer
    /\ rb' = onBulkTimeout(rb)
    /\ UNCHANGED <<op, rt, authTimestamp, sock, timeout, facade, sessionId, replyId, sent,
                   served, inbox, events,
                   calls, serial, rd, now>>

(* time passes; a timer that is due fires before more time passes *)
Tick ==
    /\ now + TickMs <= MaxTicks * TickMs
    /\ ~(rb.timer >= 0 /\ now >= rb.timer)
    /\ now' = now + TickMs
    /\ UNCHANGED <<op, rt, authTimestamp, sock, timeout, facade, sessionId, replyId, sent,
                   served, inbox, events,
                   calls, serial, rd, rb>>

----------------------------------------------------------------------------
(* The device *)

(* the bytes of the bulk payload at offsets start .. start + size - 1 *)
PayloadBytes(start, size) == [k \in 1..size |-> (start + k) % 256]

Ack(frame) ==
    createTCPHeader(CMD_ACK_OK,
                    IF CommandId(frame) = CMD_CONNECT THEN 7 ELSE ReadU16(frame, 12),
                    FrameSeq(frame), <<>>)

(* the answers to the bulk request: the announce of a total size, the payload
   inline, or an error code *)
RequestAnswers(frame) ==
    {<<createTCPHeader(CMD_ACK_OK, ReadU16(frame, 12), FrameSeq(frame), <<0>> \o U32(n))>> :
        n \in 0..MaxSize}
    \cup {<<createTCPHeader(CMD_DATA, ReadU16(frame, 12), FrameSeq(frame), <<0, 0, 0, 0, 7>>)>>,
          <<createTCPHeader(CMD_ACK_ERROR, ReadU16(frame, 12), FrameSeq(frame), <<>>)>>}

(* the answers to a chunk request: a PREPARE_DATA frame and a DATA frame, the DATA
   frame in one block or in two segments; a request for 0 bytes may go unanswered *)
ChunkAnswers(frame) ==
    LET start == ReadU32(frame, HEADERS)
        size == ReadU32(frame, HEADERS + 4)
        prepare == createTCPHeader(CMD_PREPARE_DATA, ReadU16(frame, 12), FrameSeq(frame),
                                   U32(size) \o <<0, 0, 0, 0>>)
        data == createTCPHeader(CMD_DATA, ReadU16(frame, 12), FrameSeq(frame),
                                PayloadBytes(start, size))
        cut == HEADERS + (size \div 2)
    IN  IF size = 0 THEN {<<>>, <<prepare, data>>}
        ELSE {<<prepare, data>>,
              <<prepare, Subarray(data, 0, cut), SubarrayFrom(data, cut)>>}

(* the answers to the capture command: the four bytes captureImage reads the
   size from hold 0, the length of one chunk reply or the length of two *)
CaptureAnswers(frame) ==
    {<<createTCPHeader(CMD_ACK_OK, size, 0, <<>>)>> : size \in {0, 8, 16}}

DeviceAnswers(frame) ==
    IF CommandId(frame) = CMD_DATA_WRRQ THEN RequestAnswers(frame)
    ELSE IF CommandId(frame) = CMD_DATA_RDY THEN ChunkAnswers(frame)
    ELSE IF CommandId(frame) = CMD_CAPTUREIMAGE THEN CaptureAnswers(frame)
    ELSE {<<Ack(frame)>>}

DeviceReply ==
    /\ sock = "open"
    /\ served < Len(sent)
    /\ \E blocks \in DeviceAnswers(sent[served + 1]) :
           inbox' = inbox \o blocks
    /\ served' = served + 1
    /\ UNCHANGED <<op, rt, authTimestamp, sock, timeout, facade, sessionId, replyId, sent,
                   events, calls, serial,
                   rd, rb, now>>

(* the answer to a command arrives in two TCP segments, cut after the outer header *)
DeviceSplitReply ==
    /\ sock = "open"
    /\ served < Len(sent)
    /\ CommandId(sent[served + 1]) \in {CMD_CONNECT, CMD_AUTH}
    /\ LET ack == Ack(sent[served + 1])
       IN  inbox' = inbox \o <<Subarray(ack, 0, OUTER), SubarrayFrom(ack, OUTER)>>
    /\ served' = served + 1
    /\ UNCHANGED <<sock, timeout, facade, sessionId, replyId, sent, events, calls, serial,
                   rd, rb, now, op, rt, authTimestamp>>

(* the inline answer to the bulk request arrives in two TCP segments, cut inside
   the payload *)
DeviceSplitData ==
    /\ sock = "open"
    /\ served < Len(sent)
    /\ CommandId(sent[served + 1]) = CMD_DATA_WRRQ
    /\ LET frame == sent[served + 1]
           data == createTCPHeader(CMD_DATA, ReadU16(frame, 12), FrameSeq(frame),
                                   <<0, 0, 0, 0, 7>>)
       IN  inbox' = inbox \o <<Subarray(data, 0, HEADERS + 2),
                               SubarrayFrom(data, HEADERS + 2)>>
    /\ served' = served + 1
    /\ UNCHANGED <<sock, timeout, facade, sessionId, replyId, sent, events, calls, serial,
                   rd, rb, now, op, rt, authTimestamp>>

EventFrame == createTCPHeader(CMD_REG_EVENT, sessionId, 0, <<1>>)

DeviceEvent ==
    /\ sock = "open"
    /\ events < MaxEvents
    /\ events' = events + 1
    /\ inbox' = Append(inbox, EventFrame)
    /\ UNCHANGED <<op, rt, authTimestamp, sock, timeout, facade, sessionId, replyId, sent,
                   served, calls, serial,
                   rd, rb, now>>

(* an event frame without a payload: the two headers only *)
ShortEventFrame == createTCPHeader(CMD_REG_EVENT, sessionId, 0, <<>>)

DeviceShortEvent ==
    /\ sock = "open"
    /\ events < MaxEvents
    /\ events' = events + 1
    /\ inbox' = Append(inbox, ShortEventFrame)
    /\ UNCHANGED <<op, rt, authTimestamp, sock, timeout, facade, sessionId, replyId, sent,
                   served, calls, serial,
                   rd, rb, now>>

----------------------------------------------------------------------------
(* The real-time event stream *)

(* the test of the listener, had it left out the length *)
IsLogEventAnyLength(data) == checkNotEventTCP(data)

IsLogEvent(data) == checkNotEventTCP(data) /\ Len(data) > HEADERS

(* the data listener of getRealTimeLogs, once for every time it is attached *)
onRealTimeData(r, data) ==
    [r EXCEPT !.delivered = IF IsLogEvent(data) THEN @ + r.listeners ELSE @,
              !.received = IF r.subscribed /\ IsLogEvent(data) THEN @ + 1 ELSE @,
              !.late = IF IsLogEvent(data) THEN @ + r.stale ELSE @]

(* closeSocket, had it left the data listeners attached *)
removeNoListeners(r) == r

(* `this.socket.removeAllListeners('data')` for the listeners of getRealTimeLogs;
   stale are the listeners that outlive a call of closeSocket *)
removeAllListeners(r) == [r EXCEPT !.listeners = 0]

----------------------------------------------------------------------------
(* Socket events *)

(* the socket emits 'data': every attached data listener runs *)
emitData ==
    /\ inbox # <<>>
    /\ LET data == Head(inbox)
           got == {c \in CallIds : calls[c].listener /\ Pending(c)
                                     /\ calls[c].cmd = CMD_CONNECT}
       IN  /\ calls' = [c \in CallIds |->
                          IF calls[c].listener THEN onData(calls[c], data) ELSE calls[c]]
           /\ sessionId' = IF got # {} THEN connectSession(removeTcpHeader(data), sessionId)
                           ELSE sessionId
           /\ rd' = IF rd.listener THEN RdHandleOnData(rd, data) ELSE rd
           /\ rb' = IF rb.listener THEN handleOnData(rb, data) ELSE RbAfter(rd, rd')
    /\ sent' = SentAfter(rb')
    /\ replyId' = ReplyIdAfter(rb')
    /\ rt' = onRealTimeData(rt, Head(inbox))
    /\ inbox' = Tail(inbox)
    /\ UNCHANGED <<op, authTimestamp, sock, timeout, facade, served, events, serial, now>>

DataEvent == sock = "open" /\ emitData

(* a block that was in flight when closeSocket ended the socket: the readable
   side stays open until the socket closes *)
DataEventEnded == sock = "ended" /\ emitData

(* closeSocket up to the return of the executor of its promise *)
closeSocketStart ==
    /\ IF sock = "null"
       THEN UNCHANGED <<sock, calls, rd, rb, rt>>
       ELSE /\ sock' = "ended"
            /\ calls' = [c \in CallIds |-> [calls[c] EXCEPT !.listener = FALSE]]
            /\ rd' = [rd EXCEPT !.listener = FALSE]
            /\ rb' = [rb EXCEPT !.listener = FALSE]
            /\ rt' = [removeAllListeners(rt) EXCEPT
                          !.stale = removeAllListeners(rt).listeners]
    /\ UNCHANGED <<authTimestamp, timeout, facade, sessionId, replyId, sent, served, inbox,
                   events,
                   serial, now>>

(* closeSocket, its promise not followed *)
closeSocket == closeSocketStart /\ UNCHANGED op

(* the socket emits 'close': the peer dropped, or the socket ended by closeSocket
   has closed *)
socketClosed ==
    /\ sock # "null"
    /\ sock' = "null"
    /\ inbox' = <<>>
    /\ calls' = [c \in CallIds |-> [calls[c] EXCEPT !.lost = Pending(c)]]
    /\ rb' = IF rb.closeL
             THEN [onClose(rb) EXCEPT !.lost = (rb.pst = "pending")]
             ELSE rb
    /\ UNCHANGED <<rt, authTimestamp, timeout, facade, sessionId, replyId, sent, served,
                   events, serial,
                   rd, now>>

CloseEvent == socketClosed /\ UNCHANGED op

----------------------------------------------------------------------------
(* The methods built on executeCmd and readWithBuffer.  A method runs up to
   its next await in one step; it always awaits the executeCmd call 1. *)

AllButOp == <<sock, timeout, facade, sessionId, replyId, sent, served, inbox, events,
              calls, serial, rd, rb, now, rt, authTimestamp>>

Settled(c) == calls[c].pst \in {"resolved", "rejected"}

BulkSettled == rb.pst \in {"resolved", "rejected"}

OpIdle == op.pc \in {"idle", "done"}

(* the awaited promise has settled: the continuation runs before any other event *)
OpReady ==
    \/ op.pc \in {"connect", "auth", "free1", "free2", "validate",
                   "disable", "step", "enable", "exit"} /\ Settled(1)
    \/ op.pc = "read" /\ BulkSettled

Begin(name, pc) == [NoOp EXCEPT !.name = name, !.pc = pc]

Finish(o, outcome, err, result) ==
    [o EXCEPT !.pc = "done", !.outcome = outcome, !.err = err, !.result = result]

(* `if (reply)`: reply is a Buffer, and an object is truthy whatever its length *)
Truthy(buffer) == Len(buffer) >= 0

(* Date.now(); the clock of the model starts at ClockOrigin *)
ClockOrigin == 1000

DateNow == ClockOrigin + now

(* the hex digest of the password in 64 bytes, then the timestamp in 8 bytes;
   the digest is not computed, its place is filled with the character "0" *)
authBuffer == [k \in 1..64 |-> 48] \o U32(DateNow) \o <<0, 0, 0, 0>>

(* connect(), called on its own as the first method of the instance *)
connect ==
    /\ op.pc = "idle"
    /\ executeCmd(1, CMD_CONNECT, <<>>)
    /\ op' = Begin("connect", "connect")

(* connectWithAuth, as the first method of the instance, up to the await inside
   connect() *)
connectWithAuth ==
    /\ op.pc = "idle"
    /\ executeCmd(1, CMD_CONNECT, <<>>)
    /\ op' = Begin("connectWithAuth", "connect")

(* what connect() makes of the reply of executeCmd *)
connectOutcome(reply) ==
    IF Truthy(reply) THEN "none" ELSE "NO_REPLY_ON_CMD_CONNECT"

(* connect(), called again after an earlier method of the instance has settled *)
connectAgain ==
    /\ op.pc = "done"
    /\ executeCmd(1, CMD_CONNECT, <<>>)
    /\ op' = Begin("connect", "connect")

(* connectWithAuth, called again after an earlier method has settled *)
connectWithAuthAgain ==
    /\ op.pc = "done"
    /\ executeCmd(1, CMD_CONNECT, <<>>)
    /\ op' = Begin("connectWithAuth", "connect")

(* connect() after its await; connectWithAuth goes on to send CMD_AUTH *)
ConnectReturn ==
    /\ op.pc = "connect"
    /\ Settled(1)
    /\ LET reply == calls[1].reply
           err == IF calls[1].pst = "rejected" THEN calls[1].err
                  ELSE connectOutcome(reply)
           o == [op EXCEPT !.connectReply = reply]
       IN  IF err # "none"
           THEN /\ op' = Finish(o, "threw", err, <<>>)
                /\ UNCHANGED AllButOp
           ELSE IF op.name = "connect"
           THEN /\ op' = Finish(o, "returned", "none", <<>>)
                /\ UNCHANGED AllButOp
           ELSE /\ executeCmd(1, CMD_AUTH, authBuffer)
                /\ op' = [o EXCEPT !.pc = "auth"]

(* connectWithAuth, had it not tested the session id of the reply *)
authOutcomeAnySession(reply) ==
    IF ~Truthy(reply) THEN "NO_REPLY_ON_CMD_AUTH"
    ELSE IF Len(reply) < 6 THEN "INVALID_AUTH_RESPONSE"
    ELSE "none"

(* what connectWithAuth makes of the reply to CMD_AUTH *)
authOutcome(reply) ==
    IF ~Truthy(reply) THEN "NO_REPLY_ON_CMD_AUTH"
    ELSE IF Len(reply) < 6 THEN "INVALID_AUTH_RESPONSE"
    ELSE IF ReadU16(reply, 4) = 0 THEN "INVALID_SESSION_ID"
    ELSE "none"

(* connectWithAuth after the await of executeCmd(CMD_AUTH) *)
AuthReturn ==
    /\ op.pc = "auth"
    /\ Settled(1)
    /\ LET reply == calls[1].reply
           err == IF calls[1].pst = "rejected" THEN calls[1].err
                  ELSE authOutcome(reply)
       IN  /\ op' = [Finish(op, IF err = "none" THEN "returned" ELSE "threw", err, <<>>)
                        EXCEPT !.reply = reply]
           /\ sessionId' = IF err = "none" THEN ReadU16(reply, 4) ELSE sessionId
           /\ authTimestamp' = IF err = "none" THEN DateNow ELSE authTimestamp
    /\ UNCHANGED <<sock, timeout, facade, replyId, sent, served, inbox, events, calls, serial,
                   rd, rb, now, rt>>

(* getUsers: `data.data.subarray(4)` cut into records of USER_PACKET_SIZE bytes;
   the object returned holds the records (here their number) under `data` *)
USER_PACKET_SIZE == 72

usersResult(data) == [data |-> Len(SubarrayFrom(data, 4)) \div USER_PACKET_SIZE]

(* getUsers up to its first await: freeData() if there is a socket, else the
   bulk read *)
getUsers ==
    /\ OpIdle
    /\ rb.pst = "none"
    /\ IF sock # "null"
       THEN /\ executeCmd(1, CMD_FREE_DATA, <<>>)
            /\ op' = Begin("getUsers", "free1")
       ELSE /\ readWithBufferStart
            /\ op' = Begin("getUsers", "read")

(* getUsers after the first freeData(): the bulk read is started *)
FreeReturn ==
    /\ op.pc = "free1"
    /\ Settled(1)
    /\ IF calls[1].pst = "rejected"
       THEN /\ op' = Finish(op, "threw", calls[1].err, <<>>)
            /\ UNCHANGED AllButOp
       ELSE /\ readWithBufferStart
            /\ op' = [op EXCEPT !.pc = "read"]

(* getUsers after `await this.readWithBuffer(...)`: a rejection goes to the catch
   block, which rethrows; else freeData() if there is a socket *)
ReadReturn ==
    /\ op.pc = "read"
    /\ BulkSettled
    /\ LET o == [op EXCEPT !.afterRead = Len(sent), !.openAfterRead = (sock = "open")]
       IN  IF rb.pst = "rejected"
           THEN /\ op' = Finish(o, "threw", rb.err, <<>>)
                /\ UNCHANGED AllButOp
           ELSE IF sock # "null"
           THEN /\ executeCmd(1, CMD_FREE_DATA, <<>>)
                /\ op' = [o EXCEPT !.pc = "free2"]
           ELSE /\ op' = Finish(o, "returned", "none", usersResult(rb.data))
                /\ UNCHANGED AllButOp

(* getUsers after the second freeData(): the records are decoded and returned *)
FreeAgainReturn ==
    /\ op.pc = "free2"
    /\ Settled(1)
    /\ op' = IF calls[1].pst = "rejected"
             THEN Finish(op, "threw", calls[1].err, <<>>)
             ELSE Finish(op, "returned", "none", usersResult(rb.data))
    /\ UNCHANGED AllButOp

(* socket.listenerCount('data') *)
listenerCount ==
    Cardinality({c \in CallIds : calls[c].listener})
    + (IF rd.listener THEN 1 ELSE 0) + (IF rb.listener THEN 1 ELSE 0) + rt.listeners

(* getRealTimeLogs(cb); without a socket `this.socket.write` throws *)
getRealTimeLogs ==
    /\ rt.calls < MaxSubscribes
    /\ replyId' = replyId + 1
    /\ IF sock = "null"
       THEN /\ rt' = [rt EXCEPT !.calls = @ + 1]
            /\ sent' = sent
       ELSE /\ rt' = [rt EXCEPT !.calls = @ + 1,
                                !.listeners = IF listenerCount = 0 THEN @ + 1 ELSE @,
                                !.subscribed = @ \/ sock = "open"]
            /\ sent' = IF sock = "open"
                       THEN Append(sent, createTCPHeader(CMD_REG_EVENT, sessionId,
                                                         replyId + 1, <<1, 0, 0, 0>>))
                       ELSE sent
    /\ UNCHANGED <<sock, timeout, facade, sessionId, served, inbox, events, calls, serial,
                   rd, rb, now, op, authTimestamp>>

(* The methods that disable the device while they work *)

TemplateOps == {"uploadFingerprintTemplate", "readAllTemplates", "captureImage"}

(* the commands between disableDevice and enableDevice, in the order of the code;
   step 4 of captureImage is the body of its loop *)
stepCommands(name) ==
    IF name = "uploadFingerprintTemplate"
    THEN <<CMD_PREPARE_DATA, CMD_DATA, CMD_CHECKSUM_BUFFER, CMD_TMP_WRITE,
           CMD_FREE_DATA, CMD_REFRESHDATA>>
    ELSE IF name = "readAllTemplates"
    THEN <<CMD_DATA_WRRQ>>
    ELSE <<CMD_FREE_DATA, CMD_CAPTUREIMAGE, CMD_PREPARE_DATA, CMD_DATA, CMD_FREE_DATA>>

(* the data sent with the command of step o.step *)
stepData(o) ==
    IF o.name = "uploadFingerprintTemplate"
    THEN IF o.step = 1 THEN U16(Len(o.templateData)) \o U32(0)
         ELSE IF o.step = 2 THEN o.templateData
         ELSE IF o.step = 4
         THEN U16(o.userSn) \o <<0, 1>> \o U16(Len(o.templateData))
         ELSE <<>>
    ELSE IF o.name = "readAllTemplates"
    THEN <<1, 7, 0, 2, 0, 0, 0, 0, 0, 0, 0>>
    ELSE IF o.step = 3 THEN U32(o.remaining) \o U32(0)
    ELSE <<>>

(* what the method throws on the reply of step o.step *)
stepError(o, reply) ==
    IF o.name = "uploadFingerprintTemplate"
    THEN IF o.step = 3 /\ (~Truthy(reply) \/ Len(reply) < 6) THEN "Failed to get checksum"
         ELSE IF o.step = 4 /\ (~Truthy(reply) \/ Len(reply) < 6)
         THEN "Failed to write template"
         ELSE "none"
    ELSE IF o.name = "readAllTemplates"
    THEN IF ~Truthy(reply) \/ Len(reply) < 8 THEN "Failed to read templates" ELSE "none"
    ELSE IF o.step = 2 /\ (~Truthy(reply) \/ Len(reply) < 8)
    THEN "Failed to initiate image capture"
    ELSE IF o.step = 2 /\ ReadU32(reply, 4) = 0 THEN "Captured image size is zero"
    ELSE IF o.step = 4 /\ ~(Truthy(reply) /\ Len(reply) > 0)
    THEN "Failed to receive image chunk"
    ELSE "none"

(* the method after the reply of step o.step was accepted: step 0 is the end of
   the inner try block *)
afterStep(o, reply) ==
    IF o.name = "captureImage" /\ o.step = 2
    THEN [o EXCEPT !.step = 3, !.remaining = ReadU32(reply, 4)]
    ELSE IF o.name = "captureImage" /\ o.step = 3
    THEN [o EXCEPT !.step = IF o.remaining > 0 THEN 4 ELSE 5]
    ELSE IF o.name = "captureImage" /\ o.step = 4
    THEN [o EXCEPT !.result = @ \o reply,
                   !.remaining = @ - Len(reply),
                   !.step = IF o.remaining - Len(reply) > 0 THEN 4 ELSE 5]
    ELSE [o EXCEPT !.step = IF o.step < Len(stepCommands(o.name)) THEN @ + 1 ELSE 0]

(* the method, had it no finally block *)
finallyNothing(o) ==
    /\ op' = Finish(o, IF o.pending # "none" THEN "threw" ELSE "returned",
                    o.pending, o.result)
    /\ UNCHANGED AllButOp

(* `finally { await this.enableDevice() }` up to the await *)
finallyEnable(o) ==
    /\ executeCmd(1, CMD_ENABLEDEVICE, <<>>)
    /\ op' = [o EXCEPT !.pc = "enable"]

(* uploadFingerprintTemplate(userSn, 0, templateData) up to its first await *)
uploadFingerprintTemplate ==
    /\ op.pc = "idle"
    /\ \E userSn \in {0, 1} :
          IF userSn <= 0 \/ userSn > 3000
          THEN /\ op' = Finish(Begin("uploadFingerprintTemplate", "disable"),
                               "threw", "Invalid parameters", <<>>)
               /\ UNCHANGED AllButOp
          ELSE /\ executeCmd(1, CMD_DISABLEDEVICE, DISABLE_DEVICE)
               /\ op' = [Begin("uploadFingerprintTemplate", "disable") EXCEPT
                            !.userSn = userSn, !.templateData = <<1, 2>>]

readAllTemplates ==
    /\ op.pc = "idle"
    /\ executeCmd(1, CMD_DISABLEDEVICE, DISABLE_DEVICE)
    /\ op' = Begin("readAllTemplates", "disable")

captureImage ==
    /\ op.pc = "idle"
    /\ executeCmd(1, CMD_DISABLEDEVICE, DISABLE_DEVICE)
    /\ op' = Begin("captureImage", "disable")

(* after `await this.disableDevice()`: a rejection leaves the method, otherwise
   the inner try block starts *)
DisableReturn ==
    /\ op.pc = "disable"
    /\ Settled(1)
    /\ IF calls[1].pst = "rejected"
       THEN /\ op' = Finish(op, "threw", calls[1].err, <<>>)
            /\ UNCHANGED AllButOp
       ELSE LET o == [op EXCEPT !.disabled = TRUE, !.step = 1, !.pc = "step"]
            IN  /\ executeCmd(1, stepCommands(o.name)[o.step], stepData(o))
                /\ op' = o

(* after the await of a command of the inner try block *)
StepReturn ==
    /\ op.pc = "step"
    /\ Settled(1)
    /\ LET reply == calls[1].reply
           err == IF calls[1].pst = "rejected" THEN calls[1].err
                  ELSE stepError(op, reply)
           o == afterStep(op, reply)
       IN  IF err # "none"
           THEN finallyEnable([op EXCEPT !.pending = err])
           ELSE IF o.step = 0
           THEN finallyEnable(o)
           ELSE /\ executeCmd(1, stepCommands(o.name)[o.step], stepData(o))
                /\ op' = o

(* after the await of enableDevice in the finally block: its rejection replaces
   the outcome of the try block *)
EnableReturn ==
    /\ op.pc = "enable"
    /\ Settled(1)
    /\ op' = IF calls[1].pst = "rejected"
             THEN Finish(op, "threw", calls[1].err, op.result)
             ELSE IF op.pending # "none"
             THEN Finish(op, "threw", op.pending, op.result)
             ELSE Finish(op, "returned", "none", op.result)
    /\ UNCHANGED AllButOp

SESSION_TIMEOUT == 30 * 60 * 1000

(* the tests of validateSession, had it left out the age of the session *)
sessionUsableAtAnyAge == sessionId # 0 /\ authTimestamp # 0

(* the tests validateSession makes before it asks the device *)
sessionUsable ==
    /\ sessionId # 0
    /\ authTimestamp # 0
    /\ ~(DateNow - authTimestamp > SESSION_TIMEOUT)

(* validateSession, had it dropped the session id of a session it finds unusable *)
validateSessionClearing ==
    /\ OpIdle
    /\ IF sessionUsable
       THEN /\ executeCmd(1, CMD_ACK_OK, <<>>)
            /\ op' = Begin("validateSession", "validate")
       ELSE /\ op' = Finish(Begin("validateSession", "validate"),
                            "returned", "none", <<FALSE>>)
            /\ sessionId' = 0
            /\ UNCHANGED <<sock, timeout, facade, replyId, sent, served, inbox, events,
                           calls, serial, rd, rb, now, rt, authTimestamp>>

(* validateSession up to its return or its await *)
validateSession ==
    /\ OpIdle
    /\ IF sessionUsable
       THEN /\ executeCmd(1, CMD_ACK_OK, <<>>)
            /\ op' = Begin("validateSession", "validate")
       ELSE /\ op' = Finish(Begin("validateSession", "validate"),
                            "returned", "none", <<FALSE>>)
            /\ UNCHANGED AllButOp

(* validateSession after its await; a rejection is caught and false returned *)
ValidateReturn ==
    /\ op.pc = "validate"
    /\ Settled(1)
    /\ LET reply == calls[1].reply
           valid == /\ calls[1].pst = "resolved"
                    /\ Truthy(reply)
                    /\ Len(reply) >= 6
                    /\ ReadU16(reply, 4) = sessionId
       IN  op' = Finish([op EXCEPT !.reply = reply], "returned", "none", <<valid>>)
    /\ UNCHANGED AllButOp

(* the instance is left alone for the lifetime of a session *)
LongIdle ==
    /\ now <= MaxTicks * TickMs
    /\ ~(rb.timer >= 0 /\ now >= rb.timer)
    /\ now' = now + SESSION_TIMEOUT
    /\ UNCHANGED <<op, rt, authTimestamp, sock, timeout, facade, sessionId, replyId, sent,
                   served, inbox, events,
                   calls, serial, rd, rb>>

(* closeSocket() as a call whose promise is followed: without a socket it
   resolves at once; otherwise it ends the socket, arms the 2000 ms timer and
   listens for 'error' *)
closeSocketCall ==
    /\ OpIdle
    /\ op' = IF sock = "null"
             THEN Finish(Begin("closeSocket", "closing"), "returned", "none", <<>>)
             ELSE Begin("closeSocket", "closing")
    /\ closeSocketStart

(* the callback of socket.end(): the writable side has finished *)
EndCallback ==
    /\ op.pc = "closing"
    /\ op' = Finish(op, "returned", "none", <<>>)
    /\ UNCHANGED AllButOp

(* the 2000 ms timer of closeSocket: the socket is destroyed and closes *)
CloseTimer ==
    /\ op.pc = "closing"
    /\ op' = Finish(op, "returned", "none", <<>>)
    /\ socketClosed

(* the socket emits 'error' and closes: the listener of createSocket clears the
   reference; a pending closeSocket is rejected by its 'error' listener, unless
   the runtime has called the callback of socket.end() first *)
ErrorEvent ==
    /\ socketClosed
    /\ IF op.pc = "closing"
       THEN \/ op' = Finish(op, "threw", "SOCKET_ERROR", <<>>)
            \/ op' = Finish(op, "returned", "none", <<>>)
       ELSE UNCHANGED op

(* disconnect() up to the await of executeCmd(CMD_EXIT) *)
disconnect ==
    /\ OpIdle
    /\ executeCmd(1, CMD_EXIT, <<>>)
    /\ op' = Begin("disconnect", "exit")

(* disconnect() after the first try, had it no catch clause: the rejection of
   executeCmd(CMD_EXIT) leaves the method *)
exitErrorThrown(o, call) ==
    IF call.pst = "rejected"
    THEN Finish(o, "threw", call.err, <<>>)
    ELSE IF sock = "null"
    THEN Finish(o, "returned", "none", <<>>)
    ELSE [o EXCEPT !.pc = "closing"]

(* disconnect() after its first try and catch: the rejection of
   executeCmd(CMD_EXIT), here `call`, is logged and dropped, and the method is
   at `await this.closeSocket()`, which has resolved at once without a socket *)
exitErrorCaught(o, call) ==
    IF sock = "null"
    THEN Finish(o, "returned", "none", <<>>)
    ELSE [o EXCEPT !.pc = "closing"]

(* disconnect() after that await, whatever its outcome: closeSocket is called
   and its promise awaited *)
DisconnectReturn ==
    /\ op.pc = "exit"
    /\ Settled(1)
    /\ op' = exitErrorCaught(op, calls[1])
    /\ closeSocketStart

----------------------------------------------------------------------------
(* The ZktecoJs object of index.js.  Its caller awaits each of its methods. *)

FIdle == facade.pc \in {"idle", "done"}

(* the awaited ZTCP call of the running method has settled *)
FReady ==
    \/ facade.pc \in {"connect", "auth"} /\ op.pc = "done"
    \/ facade.pc = "cmd" /\ Settled(1)

FBegin(name) ==
    [facade EXCEPT !.name = name, !.outcome = "none", !.err = "none",
                   !.result = "none", !.tick = ~@,
                   !.calledWith = facade.connectionType]

FSettle(f, outcome, err, result) ==
    [f EXCEPT !.pc = "done", !.outcome = outcome, !.err = err, !.result = result]

(* what the catch clause of functionWrapper throws: its argument
   `this.connectionType.toUpperCase()` is evaluated before ZkError is
   constructed, and null has no method toUpperCase *)
functionWrapperError(connectionType) ==
    IF connectionType = "null" THEN "TypeError" ELSE "ZkError"

(* the first statements of disconnect() of index.js, had they left the timer
   handle in place *)
clearSchedulesKeepsTimer(f) == [f EXCEPT !.interval = FALSE]

(* disconnect() of index.js: clearInterval and clearTimeout on the handles *)
clearSchedules(f) == [f EXCEPT !.interval = FALSE, !.timer = FALSE]

(* createSocket of index.js up to its first await: connect() on the socket the
   ZTCP instance holds, or ZTCP.createSocket, which makes a new socket, attaches
   its 'error', 'connect' and 'close' listeners and starts to connect *)
facadeCreateSocket ==
    /\ FIdle
    /\ OpIdle
    /\ IF sock # "null"
       THEN /\ ztcpExecuteCmd(1, CMD_CONNECT, <<>>)
            /\ op' = Begin("connect", "connect")
            /\ facade' = [FBegin("createSocket") EXCEPT !.pc = "connect"]
       ELSE /\ facade.gen < MaxSockets
            /\ sock' = "open"
            /\ sent' = <<>>
            /\ served' = 0
            /\ inbox' = <<>>
            /\ calls' = [c \in CallIds |-> [calls[c] EXCEPT !.listener = FALSE]]
            /\ facade' = [FBegin("createSocket") EXCEPT !.pc = "creating",
                                                         !.gen = @ + 1,
                                                         !.authed = FALSE]
            /\ UNCHANGED <<timeout, sessionId, replyId, events, serial, rd, rb, now,
                           op, rt, authTimestamp>>

(* the new socket emits 'connect': createSocket of index.js reads
   ZKTECO_PASSWORD and, if it is set, calls connectWithAuth *)
SocketConnected ==
    /\ facade.pc = "creating"
    /\ \E password \in BOOLEAN :
         IF password
         THEN /\ ztcpExecuteCmd(1, CMD_CONNECT, <<>>)
              /\ op' = Begin("connectWithAuth", "connect")
              /\ facade' = [facade EXCEPT !.pc = "auth"]
         ELSE /\ facade' = FSettle(facade, "threw", "ZkError", "none")
              /\ UNCHANGED <<sock, timeout, sessionId, replyId, sent, served, inbox,
                             events, calls, serial, rd, rb, now, op, rt,
                             authTimestamp>>

(* the new socket fails to connect and emits 'error': the listener of
   ZTCP.createSocket clears the reference and rejects *)
SocketError ==
    /\ facade.pc = "creating"
    /\ sock' = "null"
    /\ facade' = [FSettle(facade, "threw", "ZkError", "none") EXCEPT
                     !.clearedBy = IF sock # "null" THEN facade.gen ELSE @,
                     !.clearedOf = IF sock # "null" THEN facade.gen ELSE @]
    /\ UNCHANGED <<timeout, sessionId, replyId, sent, served, inbox, events, calls,
                   serial, rd, rb, now, op, rt, authTimestamp>>

(* createSocket of index.js after the await of connect() or connectWithAuth *)
facadeCreateReturn ==
    /\ facade.pc \in {"connect", "auth"}
    /\ op.pc = "done"
    /\ facade' = IF op.outcome = "returned"
                 THEN [FSettle(facade, "returned", "none", "true") EXCEPT
                          !.connectionType = "tcp",
                          !.authed = (facade.authed \/ facade.pc = "auth")]
                 ELSE FSettle(facade, "threw", "ZkError", "none")
    /\ UNCHANGED <<sock, timeout, sessionId, replyId, sent, served, inbox, events,
                   calls, serial, rd, rb, now, op, rt, authTimestamp>>

(* disconnect() of index.js, the later of the two definitions of the class *)
facadeDisconnect ==
    /\ FIdle
    /\ OpIdle
    /\ LET ends == facade.connectionType = "tcp" /\ sock # "null"
       IN  /\ sock' = IF ends THEN "null" ELSE sock
           /\ facade' = [FSettle(clearSchedules(FBegin("disconnect")),
                                 "returned", "none", "true") EXCEPT
                            !.connectionType = "null",
                            !.closing = IF ends THEN @ \cup {facade.gen} ELSE @]
    /\ UNCHANGED <<timeout, sessionId, replyId, sent, served, inbox, events, calls,
                   serial, rd, rb, now, op, rt, authTimestamp>>

(* a socket ended by disconnect() of index.js emits 'close': the listener that
   ZTCP.createSocket attached to it runs `this.socket = null` *)
OldSocketClose(g) ==
    /\ g \in facade.closing
    /\ sock' = "null"
    /\ facade' = [facade EXCEPT !.closing = @ \ {g},
                                !.clearedBy = IF sock # "null" THEN g ELSE @,
                                !.clearedOf = IF sock # "null" THEN facade.gen ELSE @]
    /\ UNCHANGED <<timeout, sessionId, replyId, sent, served, inbox, events, calls,
                   serial, rd, rb, now, op, rt, authTimestamp>>

(* executeCmd of index.js: functionWrapper around ZTCP.executeCmd *)
facadeExecuteCmd ==
    /\ FIdle
    /\ OpIdle
    /\ IF facade.connectionType = "tcp" /\ sock # "null"
       THEN /\ ztcpExecuteCmd(1, CMD_FREE_DATA, <<>>)
            /\ facade' = [FBegin("executeCmd") EXCEPT !.pc = "cmd"]
            /\ UNCHANGED op
       ELSE /\ facade' = FSettle(FBegin("executeCmd"), "threw",
                                 functionWrapperError(facade.connectionType), "none")
            /\ UNCHANGED <<sock, timeout, sessionId, replyId, sent, served, inbox,
                           events, calls, serial, rd, rb, now, op, rt,
                           authTimestamp>>

(* functionWrapper after the await of the callback *)
facadeExecuteReturn ==
    /\ facade.pc = "cmd"
    /\ Settled(1)
    /\ facade' = IF calls[1].pst = "resolved"
                 THEN FSettle(facade, "returned", "none", "reply")
                 ELSE FSettle(facade, "threw",
                              functionWrapperError(facade.connectionType), "none")
    /\ UNCHANGED <<sock, timeout, sessionId, replyId, sent, served, inbox, events,
                   calls, serial, rd, rb, now, op, rt, authTimestamp>>

setIntervalSchedule ==
    /\ facade' = [facade EXCEPT !.interval = TRUE]
    /\ UNCHANGED <<sock, timeout, sessionId, replyId, sent, served, inbox, events,
                   calls, serial, rd, rb, now, op, rt, authTimestamp>>

setTimerSchedule ==
    /\ facade' = [facade EXCEPT !.timer = TRUE]
    /\ UNCHANGED <<sock, timeout, sessionId, replyId, sent, served, inbox, events,
                   calls, serial, rd, rb, now, op, rt, authTimestamp>>

----------------------------------------------------------------------------

Init ==
    /\ sock = "open"
    /\ timeout \in {0, 5000}
    /\ facade = NoFacade
    /\ sessionId = 0
    /\ replyId = 0
    /\ sent = <<>>
    /\ served = 0
    /\ inbox = <<>>
    /\ events = 0
    /\ calls = [c \in CallIds |-> NoCall]
    /\ serial = TRUE
    /\ rd = NoRd
    /\ rb = NoRb
    /\ now = 0
    /\ op = NoOp
    /\ rt = NoRt
    /\ authTimestamp = 0

Next ==
    \/ \E c \in CallIds, command \in {CMD_CONNECT, CMD_FREE_DATA} : ExecuteCmd(c, command)
    \/ \E c \in CallIds : WriteOk(c)
    \/ \E c \in CallIds : WriteErr(c)
    \/ \E c \in CallIds : Timeout(c)
    \/ DeviceReply
    \/ DeviceEvent
    \/ DataEvent
    \/ closeSocket
    \/ CloseEvent

Spec == Init /\ [][Next]_vars

(* write callbacks are always called and armed timers always fire *)
FairSpec ==
    /\ Spec
    /\ WF_vars(\E c \in CallIds : WriteOk(c) \/ WriteErr(c))
    /\ WF_vars(\E c \in CallIds : Timeout(c))

BulkNext ==
    \/ readWithBuffer
    \/ RdWriteOk
    \/ RdWriteErr
    \/ RdTimeoutWrite
    \/ RdTimeoutError
    \/ RdTimeoutData
    \/ BulkTimeout
    \/ Tick
    \/ DeviceReply
    \/ DeviceEvent
    \/ DataEvent
    \/ closeSocket
    \/ CloseEvent

(* the bulk read is run on an instance constructed with a timeout *)
BulkInit == Init /\ timeout # 0

BulkSpec == BulkInit /\ [][BulkNext]_vars

(* An event of the loop other than the continuation of the running method: it
   waits until the continuation that is ready has run.  The specifications
   below follow the instance until getUsers, or the handshake, has settled. *)
Turn(A) == ~OpReady /\ ~(op.name = "getUsers" /\ op.pc = "done") /\ A

(* getUsers on an instance, with every timer and callback *)
UsersNext ==
    \/ FreeReturn
    \/ ReadReturn
    \/ FreeAgainReturn
    \/ Turn(getUsers)
    \/ Turn(WriteOk(1))
    \/ Turn(WriteErr(1))
    \/ Turn(Timeout(1))
    \/ Turn(RdWriteOk)
    \/ Turn(RdWriteErr)
    \/ Turn(RdTimeoutWrite)
    \/ Turn(RdTimeoutError)
    \/ Turn(RdTimeoutData)
    \/ Turn(BulkTimeout)
    \/ Turn(Tick)
    \/ Turn(DeviceReply)
    \/ Turn(DeviceEvent)
    \/ Turn(DataEvent)
    \/ Turn(closeSocket)
    \/ Turn(CloseEvent)

UsersSpec == BulkInit /\ [][UsersNext]_vars

(* every method that writes frames: connect, then getUsers, with getRealTimeLogs
   at any moment; of the timers, only those that requestData arms on a reply
   (the write callbacks and the other timers write no frame and leave replyId
   alone) *)
SeqNext ==
    \/ ConnectReturn
    \/ FreeReturn
    \/ ReadReturn
    \/ FreeAgainReturn
    \/ Turn(connect)
    \/ Turn(getUsers)
    \/ Turn(getRealTimeLogs)
    \/ Turn(RdTimeoutError)
    \/ Turn(RdTimeoutData)
    \/ Turn(DeviceReply)
    \/ Turn(DataEvent)
    \/ Turn(closeSocket)
    \/ Turn(CloseEvent)

SeqSpec == BulkInit /\ [][SeqNext]_vars

(* commands issued by callers, and getRealTimeLogs at any moment *)
EventNext ==
    \/ Next
    \/ getRealTimeLogs

EventSpec == Init /\ [][EventNext]_vars

AuthTurn(A) == ~OpReady /\ op.pc # "done" /\ A

(* connect or connectWithAuth on a new instance *)
AuthNext ==
    \/ ConnectReturn
    \/ AuthReturn
    \/ AuthTurn(connect)
    \/ AuthTurn(connectWithAuth)
    \/ AuthTurn(WriteOk(1))
    \/ AuthTurn(WriteErr(1))
    \/ AuthTurn(Timeout(1))
    \/ AuthTurn(Tick)
    \/ AuthTurn(DeviceReply)
    \/ AuthTurn(DeviceSplitReply)
    \/ AuthTurn(DeviceEvent)
    \/ AuthTurn(DataEvent)
    \/ AuthTurn(closeSocket)
    \/ AuthTurn(CloseEvent)

AuthSpec == Init /\ [][AuthNext]_vars

----------------------------------------------------------------------------
(* the bulk read against a device that sends no events and may send the inline
   answer in two segments *)
InlineNext ==
    \/ readWithBuffer
    \/ RdWriteOk
    \/ RdWriteErr
    \/ RdTimeoutWrite
    \/ RdTimeoutError
    \/ RdTimeoutData
    \/ BulkTimeout
    \/ Tick
    \/ DeviceReply
    \/ DeviceSplitData
    \/ DataEvent
    \/ closeSocket
    \/ CloseEvent

InlineSpec == BulkInit /\ [][InlineNext]_vars

(* the event stream next to one command, against a device that also sends event
   frames without a payload, with blocks arriving after closeSocket *)
RtNext ==
    \/ getRealTimeLogs
    \/ ExecuteCmd(1, CMD_FREE_DATA)
    \/ WriteOk(1)
    \/ Timeout(1)
    \/ DeviceReply
    \/ DeviceEvent
    \/ DeviceShortEvent
    \/ DataEvent
    \/ DataEventEnded
    \/ closeSocket
    \/ CloseEvent

RtSpec == Init /\ [][RtNext]_vars

TemplateTurn(A) == ~OpReady /\ op.pc # "done" /\ A

(* one of the methods that disable the device, on a new instance *)
TemplateNext ==
    \/ DisableReturn
    \/ StepReturn
    \/ EnableReturn
    \/ TemplateTurn(uploadFingerprintTemplate)
    \/ TemplateTurn(readAllTemplates)
    \/ TemplateTurn(captureImage)
    \/ TemplateTurn(WriteOk(1))
    \/ TemplateTurn(Timeout(1))
    \/ TemplateTurn(DeviceReply)
    \/ TemplateTurn(DataEvent)
    \/ TemplateTurn(CloseEvent)

TemplateSpec == Init /\ [][TemplateNext]_vars

ValidTurn(A) == ~OpReady /\ A

(* a session from the handshake to the disconnect: a caller that awaits every
   call runs the methods one after another in any order; nothing is followed
   once disconnect() has settled *)
SessionTurn(A) == ~OpReady /\ ~(op.name = "disconnect" /\ op.pc = "done") /\ A

SessionNext ==
    \/ ConnectReturn
    \/ AuthReturn
    \/ ValidateReturn
    \/ FreeReturn
    \/ ReadReturn
    \/ FreeAgainReturn
    \/ DisconnectReturn
    \/ SessionTurn(connect)
    \/ SessionTurn(connectWithAuth)
    \/ SessionTurn(replyId < MaxReplyId /\ validateSession)
    \/ SessionTurn(getUsers)
    \/ SessionTurn(OpIdle /\ getRealTimeLogs)
    \/ SessionTurn(sock # "null" /\ disconnect)
    \/ SessionTurn(OpIdle /\ closeSocket)
    \/ SessionTurn(EndCallback)
    \/ SessionTurn(RdTimeoutError)
    \/ SessionTurn(RdTimeoutData)
    \/ SessionTurn(DeviceReply)
    \/ SessionTurn(DataEvent)
    \/ SessionTurn(CloseEvent)

SessionSpec == BulkInit /\ [][SessionNext]_vars

(* validateSession called again and again, before and after a handshake *)
ValidNext ==
    \/ ConnectReturn
    \/ AuthReturn
    \/ ValidateReturn
    \/ ValidTurn(connect)
    \/ ValidTurn(connectWithAuth)
    \/ ValidTurn(replyId < MaxReplyId /\ validateSession)
    \/ ValidTurn(WriteOk(1))
    \/ ValidTurn(Timeout(1))
    \/ ValidTurn(Tick)
    \/ ValidTurn(LongIdle)
    \/ ValidTurn(DeviceReply)
    \/ ValidTurn(DataEvent)
    \/ ValidTurn(CloseEvent)

ValidSpec == Init /\ [][ValidNext]_vars

(* a handshake, then further handshakes and validateSession in any order *)
ReauthNext ==
    \/ ConnectReturn
    \/ AuthReturn
    \/ ValidateReturn
    \/ ValidTurn(connectWithAuth)
    \/ ValidTurn(Len(sent) < MaxSessionFrames /\ connectAgain)
    \/ ValidTurn(Len(sent) < MaxSessionFrames /\ connectWithAuthAgain)
    \/ ValidTurn(Len(sent) < MaxSessionFrames /\ replyId < MaxReplyId /\ validateSession)
    \/ ValidTurn(WriteOk(1))
    \/ ValidTurn(Timeout(1))
    \/ ValidTurn(DeviceReply)
    \/ ValidTurn(DataEvent)
    \/ ValidTurn(CloseEvent)

ReauthSpec == BulkInit /\ [][ReauthNext]_vars

(* disconnect() called again and again, on a socket that is open, ended by
   closeSocket or closed, with every outcome of the exit command *)
ExitNext ==
    \/ DisconnectReturn
    \/ ValidTurn(replyId < MaxReplyId /\ disconnect)
    \/ ValidTurn(OpIdle /\ closeSocket)
    \/ ValidTurn(EndCallback)
    \/ ValidTurn(CloseTimer)
    \/ ValidTurn(ErrorEvent)
    \/ ValidTurn(CloseEvent)
    \/ ValidTurn(WriteOk(1))
    \/ ValidTurn(WriteErr(1))
    \/ ValidTurn(Timeout(1))
    \/ ValidTurn(DeviceReply)
    \/ ValidTurn(DataEvent)

ExitSpec == Init /\ [][ExitNext]_vars

(* closeSocket called again and again, next to one command *)
CloseNext ==
    \/ closeSocketCall
    \/ EndCallback
    \/ CloseTimer
    \/ ErrorEvent
    \/ CloseEvent
    \/ ExecuteCmd(1, CMD_FREE_DATA)
    \/ WriteOk(1)
    \/ WriteErr(1)
    \/ Timeout(1)
    \/ getRealTimeLogs
    \/ DeviceReply
    \/ DeviceEvent
    \/ DataEvent
    \/ DataEventEnded

CloseSpec == Init /\ [][CloseNext]_vars

(* a new ZktecoJs object: no socket yet, a timeout given *)
FacadeInit ==
    /\ sock = "null"
    /\ timeout = 5000
    /\ facade = NoFacade
    /\ sessionId = 0
    /\ replyId = 0
    /\ sent = <<>>
    /\ served = 0
    /\ inbox = <<>>
    /\ events = 0
    /\ calls = [c \in CallIds |-> NoCall]
    /\ serial = TRUE
    /\ rd = NoRd
    /\ rb = NoRb
    /\ now = 0
    /\ op = NoOp
    /\ rt = NoRt
    /\ authTimestamp = 0

FacadeTurn(A) == ~OpReady /\ ~FReady /\ A

(* a caller of the ZktecoJs object that awaits each of its methods *)
FacadeNext ==
    \/ ConnectReturn
    \/ AuthReturn
    \/ facadeCreateReturn
    \/ facadeExecuteReturn
    \/ FacadeTurn((sock # "null" => Len(sent) < MaxFrames) /\ facadeCreateSocket)
    \/ FacadeTurn(SocketConnected)
    \/ FacadeTurn(SocketError)
    \/ FacadeTurn(facadeDisconnect)
    \/ FacadeTurn(\E g \in 1..MaxSockets : OldSocketClose(g))
    \/ FacadeTurn((facade.connectionType = "tcp" /\ sock # "null" => Len(sent) < MaxFrames)
                  /\ facadeExecuteCmd)
    \/ FacadeTurn(setIntervalSchedule)
    \/ FacadeTurn(setTimerSchedule)
    \/ FacadeTurn(WriteOk(1))
    \/ FacadeTurn(Timeout(1))
    \/ FacadeTurn(DeviceReply)
    \/ FacadeTurn(DataEvent)
    \/ FacadeTurn(facade.pc # "creating" /\ CloseEvent)

FacadeSpec == FacadeInit /\ [][FacadeNext]_vars

(* the same caller, restricted to createSocket, the two schedules and
   disconnect *)
ScheduleNext ==
    \/ ConnectReturn
    \/ AuthReturn
    \/ facadeCreateReturn
    \/ FacadeTurn((sock # "null" => Len(sent) < MaxFrames) /\ facadeCreateSocket)
    \/ FacadeTurn(SocketConnected)
    \/ FacadeTurn(SocketError)
    \/ FacadeTurn(facadeDisconnect)
    \/ FacadeTurn(\E g \in 1..MaxSockets : OldSocketClose(g))
    \/ FacadeTurn(setIntervalSchedule)
    \/ FacadeTurn(setTimerSchedule)
    \/ FacadeTurn(WriteOk(1))
    \/ FacadeTurn(Timeout(1))
    \/ FacadeTurn(DeviceReply)
    \/ FacadeTurn(DataEvent)
    \/ FacadeTurn(facade.pc # "creating" /\ CloseEvent)

ScheduleSpec == FacadeInit /\ [][ScheduleNext]_vars

(* Notions the properties are stated in *)

TimeoutErrors == {"TIMEOUT WHEN RECEIVING PACKET", "TIME OUT !! PACKETS REMAIN !"}

DisconnectError == "Socket is disconnected unexpectedly"

IsChunkRequest(frame) == CommandId(frame) = CMD_DATA_RDY

(* the <<start, size>> pairs of the chunk requests written to the socket, in order *)
Requests ==
    LET frames == SelectSeq(sent, IsChunkRequest)
    IN  [k \in 1..Len(frames) |->
            <<ReadU32(frames[k], HEADERS), ReadU32(frames[k], HEADERS + 4)>>]

(* the number of chunks handleOnData has completed *)
Completed == rb.numberChunks + (IF rb.remain > 0 THEN 1 ELSE 0) - rb.totalPackets

(* the bytes of the first n chunks of the announced payload *)
FirstChunks(n) == PayloadBytes(0, Min(n * MAX_CHUNK, rb.size))

(* the step is a 'data' event *)
IsDataEvent == sock = "open" /\ sock' = "open" /\ inbox # <<>> /\ inbox' = Tail(inbox)

(* the step is the inactivity timer of the chunk phase firing *)
IsBulkTimeout == rb.timer >= 0 /\ rb'.timer = -1 /\ inbox' = inbox /\ sock' = sock

----------------------------------------------------------------------------
(* C1: an executeCmd call never resolves with an unsolicited event frame: the
   reply is the first frame received after the send that is not an event. *)
ReplyIsNotEvent ==
    \A c \in CallIds : calls[c].pst = "resolved" => ~checkNotEventTCP(calls[c].raw)

(* C2, as claimed: at most one executeCmd is awaiting its reply at any moment,
   whatever the callers do. *)
AtMostOneOutstanding == Cardinality({c \in CallIds : Pending(c)}) <= 1

(* C2, amended: as long as the callers serialize their calls (each executeCmd is
   issued when no other one is pending), at most one exchange is outstanding on
   the connection: at most one call is pending and at most one reply listener of
   executeCmd is attached to the socket. *)
SerialCallersOneOutstanding ==
    serial => /\ Cardinality({c \in CallIds : Pending(c)}) <= 1
              /\ Cardinality({c \in CallIds : sock # "null" /\ calls[c].listener}) <= 1

(* a serialized second call is awaiting its reply after the first one timed out *)
SerialSecondCallWitness ==
    /\ serial
    /\ sock = "open"
    /\ \E c, d \in CallIds :
          /\ calls[c].err = "TIMEOUT_ON_WRITING_MESSAGE"
          /\ Pending(d) /\ calls[d].listener /\ ~calls[d].wcb

(* C3: every executeCmd call eventually settles, whatever this.timeout is and
   even when the device never answers. *)
EveryCallSettles == \A c \in CallIds : Pending(c) ~> ~Pending(c)

(* C4: a call that was awaiting its reply when the socket closed is rejected with
   an error that is not the timeout error. *)
CloseRejectsWithDisconnect ==
    \A c \in CallIds :
        (calls[c].lost /\ calls[c].pst # "pending")
            => (calls[c].pst = "rejected" /\ calls[c].err # "TIMEOUT_ON_WRITING_MESSAGE")

(* C5: a bulk read in chunk mode that resolves without an error returns a buffer
   as long as the announced total size. *)
ResolvedBufferIsFull ==
    (rb.phase = "chunk" /\ rb.pst = "resolved" /\ rb.err = "none")
        => Len(rb.data) = rb.size

(* C6: for a total size that is a positive multiple of the chunk size, exactly
   size / MAX_CHUNK chunk requests are issued, at ascending offsets, each of
   MAX_CHUNK bytes. *)
ExactMultipleRequests ==
    (rb.phase = "chunk" /\ rb.size > 0 /\ rb.size % MAX_CHUNK = 0)
        => Requests = [k \in 1..(rb.size \div MAX_CHUNK) |->
                          <<(k - 1) * MAX_CHUNK, MAX_CHUNK>>]

(* C7: for an announced total size of 0 the bulk read issues no chunk request, and
   when it settles it has resolved with an empty result and no error. *)
ZeroSizeCompletes ==
    (rb.phase = "chunk" /\ rb.size = 0)
        => /\ Requests = <<>>
           /\ rb.pst # "pending" => (rb.pst = "resolved" /\ rb.err = "none" /\ rb.data = <<>>)

(* C8: for a total size that is not a multiple of the chunk size, the requests
   are floor(size / MAX_CHUNK) requests of MAX_CHUNK bytes at offsets 0,
   MAX_CHUNK, ... followed by one request of size mod MAX_CHUNK bytes, the last. *)
RemainderRequestIsLast ==
    (rb.phase = "chunk" /\ rb.size % MAX_CHUNK # 0)
        => Requests = [k \in 1..((rb.size \div MAX_CHUNK) + 1) |->
                          IF k <= rb.size \div MAX_CHUNK
                          THEN <<(k - 1) * MAX_CHUNK, MAX_CHUNK>>
                          ELSE <<(rb.size \div MAX_CHUNK) * MAX_CHUNK, rb.size % MAX_CHUNK>>]

(* the chunk phase of a read of two chunks and a remainder has issued its requests *)
RemainderRequestWitness ==
    /\ rb.phase = "chunk"
    /\ rb.size = 2 * MAX_CHUNK + 1
    /\ Len(Requests) = 3
    /\ Requests[3] = <<2 * MAX_CHUNK, 1>>

(* C9: when the socket closes while the chunk phase is pending, readWithBuffer
   resolves with the disconnect error and exactly the bytes of the chunks
   completed until then. *)
DropResolvesPartial ==
    rb.lost => /\ rb.pst = "resolved"
               /\ rb.err = DisconnectError
               /\ rb.data = FirstChunks(Completed)

(* the socket closed after one or more, but not all, chunks were completed *)
DropResolvesPartialWitness ==
    /\ rb.lost
    /\ rb.err = DisconnectError
    /\ Completed >= 1
    /\ rb.totalPackets >= 1
    /\ rb.data = FirstChunks(Completed)
    /\ Len(rb.data) >= MAX_CHUNK

(* C10: in the chunk phase every received block that is not an event restarts the
   inactivity timer (a block that completes the read stops it), and when the
   timer fires on a pending read, the read resolves with a timeout error and the
   bytes of the chunks completed so far. *)
InactivityTimer ==
    [][ /\ (IsDataEvent /\ rb.listener /\ ~checkNotEventTCP(Head(inbox)))
            => rb'.timer = IF rb'.totalPackets <= 0 /\ rb.totalPackets > 0
                           THEN -1 ELSE now + BULK_TIMEOUT
        /\ (IsBulkTimeout /\ rb.pst = "pending")
            => /\ now >= rb.timer
               /\ rb'.pst = "resolved"
               /\ rb'.err \in TimeoutErrors
               /\ rb'.data = FirstChunks(Completed) ]_vars

(* the timer, restarted by a block, has fired after one or more chunks *)
InactivityTimerWitness ==
    /\ rb.pst = "resolved"
    /\ rb.err = "TIME OUT !! PACKETS REMAIN !"
    /\ Completed >= 1
    /\ rb.data = FirstChunks(Completed)
    /\ now > BULK_TIMEOUT

(* C11: every bulk read of getUsers is followed by a CMD_FREE_DATA frame before
   getUsers settles, however the bulk read ended, if the socket was open when
   the bulk read ended. *)
FreeDataFollowsBulkRead ==
    (op.name = "getUsers" /\ op.pc = "done" /\ op.afterRead >= 0 /\ op.openAfterRead)
        => \E i \in (op.afterRead + 1)..Len(sent) : CommandId(sent[i]) = CMD_FREE_DATA

(* C12: when the bulk read of getUsers ended with an error after some data,
   getUsers returns an object that holds that error beside the records. *)
PartialResultCarriesError ==
    (op.name = "getUsers" /\ op.pc = "done" /\ rb.pst = "resolved"
        /\ rb.err # "none" /\ rb.data # <<>>)
        => /\ op.outcome = "returned"
           /\ "err" \in DOMAIN op.result
           /\ op.result.err = rb.err

(* C13: once getRealTimeLogs has returned on an open connection, every event
   frame of more than 16 bytes received afterwards is handed to cb, whatever
   was done on the connection before or is in flight. *)
EventsReachCallback ==
    rt.subscribed => rt.delivered = rt.received

(* C14: the event stream has at most one data listener, and a call of
   getRealTimeLogs while its listener is attached attaches nothing, writes no
   frame and leaves replyId as it is. *)
RepeatedSubscribeIsNoOp ==
    [][ /\ rt'.listeners <= 1
        /\ (rt'.calls > rt.calls /\ rt.listeners > 0)
            => /\ rt'.listeners = rt.listeners
               /\ sent' = sent
               /\ replyId' = replyId ]_vars

(* an event frame starts at offset i of buf *)
EventAt(buf, i) == checkNotEventTCP(SubarrayFrom(buf, i))

(* C15: the buffer that the bulk read returns holds no bytes of an event frame
   that arrived while the read was in progress. *)
EventBytesNeverReturned ==
    rb.pst = "resolved" => \A i \in 0..Len(rb.data) : ~EventAt(rb.data, i)

(* C16: when executeCmd(CMD_CONNECT) resolves with a reply of 6 bytes or more,
   sessionId becomes the 16-bit value at offset 4 of that reply; every frame
   written carries the session id of the moment, and the session id changes
   only when a connect command is issued or answered. *)
SessionFromConnectReply ==
    [][ /\ \A c \in CallIds :
              (calls[c].cmd = CMD_CONNECT /\ calls[c].pst = "pending"
                  /\ calls'[c].pst = "resolved" /\ Len(calls'[c].reply) >= 6)
              => sessionId' = ReadU16(calls'[c].reply, 4)
        /\ \A i \in (Len(sent) + 1)..Len(sent') : ReadU16(sent'[i], 12) = sessionId'
        /\ sessionId' # sessionId
              => \E c \in CallIds :
                    /\ calls'[c].cmd = CMD_CONNECT
                    /\ \/ calls[c].pst = "none"
                       \/ calls[c].pst = "pending" /\ calls'[c].pst = "resolved" ]_vars

(* a connect was answered with session id 7 and a later frame carries 7 *)
SessionFromConnectReplyWitness ==
    /\ sessionId = 7
    /\ \E c \in CallIds :
          /\ calls[c].cmd = CMD_CONNECT
          /\ calls[c].pst = "resolved"
          /\ ReadU16(calls[c].reply, 4) = 7
    /\ \E i \in 2..Len(sent) :
          /\ CommandId(sent[i - 1]) = CMD_CONNECT
          /\ CommandId(sent[i]) = CMD_FREE_DATA
          /\ ReadU16(sent[i], 12) = 7

(* C17 as stated: executeCmd returns the payload of the reply alone, with the
   outer header and the inner header both removed. *)
ReplyIsInnerPayload ==
    \A c \in CallIds :
        calls[c].pst = "resolved" => calls[c].reply = SubarrayFrom(calls[c].raw, HEADERS)

(* C17: executeCmd returns the reply without its 8 byte outer header only: the
   8 byte inner header and then the payload; for the reply to CMD_CONNECT
   these are the 8 bytes with the session id at offset 4. *)
ReplyKeepsInnerHeader ==
    \A c \in CallIds :
        calls[c].pst = "resolved"
            => /\ calls[c].reply = SubarrayFrom(calls[c].raw, OUTER)
               /\ Len(calls[c].reply) >= HEADERS - OUTER
               /\ calls[c].raw = createTCPHeader(CMD_ACK_OK, 7, 0, <<>>)
                     => Len(calls[c].reply) = HEADERS - OUTER /\ ReadU16(calls[c].reply, 4) = 7

(* a connect command was answered with a frame of the two headers alone *)
ReplyKeepsInnerHeaderWitness ==
    \E c \in CallIds :
        /\ calls[c].cmd = CMD_CONNECT
        /\ calls[c].pst = "resolved"
        /\ Len(calls[c].raw) = HEADERS
        /\ CommandId(calls[c].raw) = CMD_ACK_OK
        /\ Len(calls[c].reply) = HEADERS - OUTER
        /\ sessionId = 7

(* the sequence ids of the frames written are consecutive, a connect frame
   carrying 0 *)
ConsecutiveSequenceIds(frames) ==
    \A i \in 1..Len(frames) :
        FrameSeq(frames[i]) =
            IF CommandId(frames[i]) = CMD_CONNECT THEN 0
            ELSE IF i = 1 THEN 1
            ELSE FrameSeq(frames[i - 1]) + 1

(* C18: replyId goes down only when a connect command is issued, and then to 0;
   every frame written by executeCmd, readWithBuffer, sendChunkRequest or
   getRealTimeLogs carries the sequence id of the frame before it plus one,
   a connect frame 0. *)
SequenceIds ==
    [][ /\ replyId' < replyId
            => /\ replyId' = 0
               /\ calls[1].pst = "none"
               /\ calls'[1].cmd = CMD_CONNECT
        /\ ConsecutiveSequenceIds(sent') ]_vars

(* frames of all four writers, the connect frame after a frame of getRealTimeLogs *)
SequenceIdsWitness ==
    /\ {CMD_CONNECT, CMD_FREE_DATA, CMD_DATA_WRRQ, CMD_DATA_RDY, CMD_REG_EVENT}
          \subseteq {CommandId(sent[i]) : i \in 1..Len(sent)}
    /\ \E i \in 2..Len(sent) :
          CommandId(sent[i]) = CMD_CONNECT /\ FrameSeq(sent[i - 1]) >= 1
    /\ Cardinality({i \in 1..Len(sent) : CommandId(sent[i]) = CMD_DATA_RDY}) >= 2
    /\ FrameSeq(sent[Len(sent)]) >= 5

(* C19: connectWithAuth throws INVALID_AUTH_RESPONSE on an auth reply of less
   than 6 bytes and INVALID_SESSION_ID on one with session id 0, leaving
   sessionId and authTimestamp as they were; on any other reply it stores the
   session id of the reply, which is not 0, and the time of the moment, and
   returns true. *)
AuthReplyHandling ==
    [][ (op.pc = "auth" /\ op'.pc = "done" /\ calls[1].pst = "resolved")
        => LET reply == calls[1].reply
           IN  /\ Len(reply) < 6
                   => /\ op'.outcome = "threw"
                      /\ op'.err = "INVALID_AUTH_RESPONSE"
                      /\ UNCHANGED <<sessionId, authTimestamp>>
               /\ (Len(reply) >= 6 /\ ReadU16(reply, 4) = 0)
                   => /\ op'.outcome = "threw"
                      /\ op'.err = "INVALID_SESSION_ID"
                      /\ UNCHANGED <<sessionId, authTimestamp>>
               /\ (Len(reply) >= 6 /\ ReadU16(reply, 4) # 0)
                   => /\ op'.outcome = "returned"
                      /\ sessionId' = ReadU16(reply, 4)
                      /\ sessionId' # 0
                      /\ authTimestamp' = ClockOrigin + now ]_vars

(* the auth command was answered with a block of less than 6 bytes *)
AuthReplyHandlingWitness ==
    /\ op.name = "connectWithAuth"
    /\ op.pc = "done"
    /\ calls[1].cmd = CMD_AUTH
    /\ calls[1].pst = "resolved"
    /\ Len(op.reply) < 6
    /\ op.err = "INVALID_AUTH_RESPONSE"
    /\ authTimestamp = 0

(* C20: connect() returns true only on a reply that is not empty, and on an
   empty reply it throws NO_REPLY_ON_CMD_CONNECT. *)
ConnectNeedsReply ==
    (op.name = "connect" /\ op.pc = "done" /\ calls[1].pst = "resolved")
        => /\ op.outcome = "returned" => op.connectReply # <<>>
           /\ op.connectReply = <<>> => op.err = "NO_REPLY_ON_CMD_CONNECT"


(* the block that answered the bulk request carries a code readWithBuffer has no
   case for *)
UnexpectedReply ==
    /\ Len(rd.replyBuffer) >= HEADERS
    /\ HasOuter(rd.replyBuffer)
    /\ CommandId(rd.replyBuffer) \notin {CMD_DATA, CMD_ACK_OK, CMD_PREPARE_DATA,
                                          CMD_REG_EVENT}

(* C21: when the reply to the bulk request carries a code other than CMD_DATA,
   CMD_ACK_OK or CMD_PREPARE_DATA, a readWithBuffer that has settled has rejected
   with ERROR_IN_UNHANDLE_CMD, whatever the length of the reply's payload, and
   no chunk request was written. *)
UnexpectedReplyRejects ==
    (UnexpectedReply /\ rb.pst \in {"resolved", "rejected"})
        => /\ rb.pst = "rejected"
           /\ rb.err = "ERROR_IN_UNHANDLE_CMD"
           /\ Requests = <<>>

(* C23: the progress callback has been invoked once for each chunk handleOnData
   has completed, each time with the bytes assembled so far and the announced
   total size: over one transfer the first argument never decreases and never
   exceeds the bytes assembled, and the second argument is the same every time. *)
ProgressCallback ==
    /\ Len(rb.progress) = (IF rb.phase = "chunk" THEN Completed ELSE 0)
    /\ \A i \in 1..Len(rb.progress) :
          /\ rb.progress[i][2] = rb.size
          /\ rb.progress[i][1] <= Len(rb.replyData)
          /\ i > 1 => rb.progress[i - 1][1] <= rb.progress[i][1]
    /\ rb.progress # <<>> => rb.progress[Len(rb.progress)][1] = Len(rb.replyData)

(* a transfer of three chunks, the last one shorter than the others, all reported *)
ProgressCallbackWitness ==
    /\ rb.size = MaxSize
    /\ rb.pst = "resolved"
    /\ rb.err = "none"
    /\ Len(rb.progress) = 3
    /\ rb.progress[1][1] < rb.progress[2][1]
    /\ rb.progress[2][1] < rb.progress[3][1]
    /\ rb.progress[3] = <<MaxSize, MaxSize>>

(* C22: a readWithBuffer whose bulk request was answered with an inline CMD_DATA
   frame resolves with exactly the payload of that frame, all the bytes its
   length field declares after the 16 bytes of headers, also when the frame
   arrived in two segments, and writes no chunk request. *)
InlineResolvesWithPayload ==
    (rb.pst = "resolved" /\ rb.phase = "inline")
        => /\ Len(rb.data) = ReadU16(rd.replyBuffer, 4) - 8
           /\ rb.data = Subarray(rd.replyBuffer, HEADERS, 8 + ReadU16(rd.replyBuffer, 4))
           /\ Requests = <<>>

(* C25: the listener of getRealTimeLogs invokes the subscriber callback only for
   a block that is classified as an event and is longer than the 16 bytes of
   headers, once for each attached listener; a command reply, and an event
   frame of 16 bytes, is never delivered. *)
ListenerIgnoresOtherFrames ==
    [][ /\ rt'.delivered # rt.delivered
            => /\ inbox # <<>>
               /\ checkNotEventTCP(Head(inbox))
               /\ CommandId(Head(inbox)) = CMD_REG_EVENT
               /\ Len(Head(inbox)) > HEADERS
               /\ rt'.delivered = rt.delivered + rt.listeners
        /\ (inbox # <<>> /\ inbox' = Tail(inbox)
              /\ (CommandId(Head(inbox)) # CMD_REG_EVENT \/ Len(Head(inbox)) <= HEADERS))
            => rt'.delivered = rt.delivered ]_vars

(* the listener was attached before the device answered the subscription; it has
   seen that reply without a delivery, and an event frame of 16 bytes is next *)
ListenerIgnoresOtherFramesWitness ==
    /\ sock = "open"
    /\ rt.listeners = 1
    /\ Len(sent) >= 1
    /\ CommandId(sent[1]) = CMD_REG_EVENT
    /\ served >= 1
    /\ rt.delivered = 0
    /\ inbox = <<ShortEventFrame>>

(* C26: once closeSocket has been called, a listener that getRealTimeLogs
   attached before the call is no longer attached, and no block that arrives
   afterwards is delivered to the callback of such a listener. *)
NoDeliveryAfterClose ==
    /\ rt.late = 0
    /\ rt.stale = 0

(* closeSocket was called on a connection with a subscriber while an event frame
   was in flight *)
NoDeliveryAfterCloseWitness ==
    /\ sock = "ended"
    /\ rt.subscribed
    /\ inbox # <<>>
    /\ IsLogEvent(Head(inbox))
    /\ Len(sent) >= 1
    /\ CommandId(sent[1]) = CMD_REG_EVENT

(* C27: a closeSocket() that has settled has resolved, never rejected, and the
   socket reference is null then, however often it was called before; called
   without a socket it resolves and leaves the state as it was. *)
CloseSocketReleases ==
    (op.name = "closeSocket" /\ op.pc = "done")
        => /\ op.outcome = "returned"
           /\ sock = "null"

(* C29: validateSession never rejects; neither the call nor anything that
   happens while it is awaited or after it has returned changes sessionId or
   authTimestamp, and the only frame it writes is one CMD_ACK_OK command; when
   the session id or the authentication timestamp is missing, or the timestamp
   is older than 30 minutes, it returns false at once and writes no frame. *)
SessionExpiryIsAdvisory ==
    [][ op'.name = "validateSession"
        => /\ UNCHANGED <<sessionId, authTimestamp>>
           /\ \/ sent' = sent
              \/ /\ Len(sent') = Len(sent) + 1
                 /\ SubSeq(sent', 1, Len(sent)) = sent
                 /\ CommandId(sent'[Len(sent')]) = CMD_ACK_OK
           /\ op'.pc = "done" => op'.outcome = "returned"
           /\ (op.pc # "validate"
                 /\ op' # op
                 /\ (sessionId = 0 \/ authTimestamp = 0
                       \/ ClockOrigin + now - authTimestamp > 30 * 60 * 1000))
               => /\ op'.pc = "done"
                  /\ op'.result = <<FALSE>>
                  /\ sent' = sent ]_vars

(* validateSession has returned false on an authenticated session that is older
   than 30 minutes, the auth command still being the last frame written *)
SessionExpiryIsAdvisoryWitness ==
    /\ op.name = "validateSession"
    /\ op.pc = "done"
    /\ op.result = <<FALSE>>
    /\ sessionId # 0
    /\ authTimestamp # 0
    /\ ClockOrigin + now - authTimestamp > 30 * 60 * 1000
    /\ sent # <<>>
    /\ CommandId(sent[Len(sent)]) = CMD_AUTH

(* C28: when uploadFingerprintTemplate, readAllTemplates or captureImage has
   settled and its disable-device command had succeeded, the last command the
   method issued is enable-device, whether the steps in between succeeded or
   failed; on a socket that is still open the enable-device frame is the last
   frame written. *)
EnableFollowsDisable ==
    (op.name \in TemplateOps /\ op.pc = "done" /\ op.disabled)
        => /\ calls[1].cmd = CMD_ENABLEDEVICE
           /\ sock = "open" => CommandId(sent[Len(sent)]) = CMD_ENABLEDEVICE

(* uploadFingerprintTemplate has thrown because a step after disable-device
   failed, and the enable-device frame was written *)
EnableFollowsDisableWitness ==
    /\ op.name = "uploadFingerprintTemplate"
    /\ op.pc = "done"
    /\ op.disabled
    /\ op.outcome = "threw"
    /\ op.pending # "none"
    /\ op.step \in 1..5
    /\ sock = "open"
    /\ CommandId(sent[Len(sent)]) = CMD_ENABLEDEVICE
    /\ CommandId(sent[1]) = CMD_DISABLEDEVICE

(* C24: an executeCmd call resolves only with a complete frame: the block it
   resolved with holds the outer header and all the bytes the length field of
   that header declares, also when the reply arrived in several segments. *)
ResolvesWithCompleteFrame ==
    \A c \in CallIds :
        calls[c].pst = "resolved"
            => /\ HasOuter(calls[c].raw)
               /\ Len(calls[c].raw) >= OUTER + ReadU16(calls[c].raw, 4)

(* C30: sessionId changes only in three kinds of step: a connect command is
   issued, and sessionId becomes 0; the reply to a pending connect command
   arrives, and sessionId becomes the session id of the reply; connectWithAuth
   accepts the reply to the auth command, and sessionId becomes the session id of
   that reply.  No other command, bulk read, chunk request, subscription,
   validateSession, closeSocket or disconnect changes it. *)
SessionIdWriters ==
    [][ sessionId' # sessionId
        => \/ /\ sessionId' = 0
              /\ \E c \in CallIds : /\ calls'[c] # calls[c]
                                     /\ calls'[c].cmd = CMD_CONNECT
                                     /\ calls'[c].seq = 0
                                     /\ calls'[c].raw = <<>>
           \/ \E c \in CallIds : /\ calls[c].cmd = CMD_CONNECT
                                  /\ calls[c].pst = "pending"
                                  /\ calls'[c].pst = "resolved"
                                  /\ Len(calls'[c].reply) >= 6
                                  /\ sessionId' = ReadU16(calls'[c].reply, 4)
           \/ /\ op.name = "connectWithAuth"
              /\ op.pc = "auth"
              /\ op'.pc = "done"
              /\ op'.outcome = "returned"
              /\ sessionId' = ReadU16(calls[1].reply, 4) ]_vars

(* after a handshake that set the session id, a bulk read with chunk requests,
   a subscription and a disconnect have run, and the session id is the one of the
   handshake *)
SessionIdWritersWitness ==
    /\ sessionId = 7
    /\ op.name = "disconnect"
    /\ op.pc = "done"
    /\ {CMD_CONNECT, CMD_DATA_WRRQ, CMD_DATA_RDY, CMD_REG_EVENT, CMD_EXIT}
          \subseteq {CommandId(sent[i]) : i \in 1..Len(sent)}


(* C31: when the timeout of executeCmd rejects the call while the socket is
   open, the step leaves the socket reference set and the call's data listener
   detached; a later executeCmd is then written to the same socket. *)
TimeoutLeavesConnectionUsable ==
    [][ \A c \in CallIds :
          ( /\ calls[c].pst = "pending"
            /\ calls'[c].pst = "rejected"
            /\ calls'[c].err = "TIMEOUT_ON_WRITING_MESSAGE"
            /\ sock = "open" )
          => /\ sock' = "open"
             /\ ~calls'[c].listener
             /\ sent' = sent ]_vars

(* the first call timed out and a second call on the same, still open socket
   was resolved with the reply to its own frame *)
TimeoutLeavesConnectionUsableWitness ==
    /\ sock = "open"
    /\ calls[1].pst = "rejected"
    /\ calls[1].err = "TIMEOUT_ON_WRITING_MESSAGE"
    /\ ~calls[1].listener
    /\ calls[2].pst = "resolved"
    /\ calls[2].cmd = CMD_FREE_DATA
    /\ Len(calls[2].raw) >= HEADERS
    /\ FrameSeq(calls[2].raw) = calls[2].seq


(* C32: with callers that issue each executeCmd only when no earlier one is
   pending, the block a call is resolved with, when it is a response frame and
   not an event frame, carries the sequence number of the call's own frame. *)
ReplyAnswersOwnCommand ==
    serial => \A c \in CallIds :
                 ( /\ calls[c].pst = "resolved"
                   /\ Len(calls[c].raw) >= HEADERS
                   /\ ~checkNotEventTCP(calls[c].raw) )
                 => FrameSeq(calls[c].raw) = calls[c].seq


(* C33: whenever an event of a socket has cleared a set socket reference, the
   socket that emitted the event is the socket the reference pointed to. *)
ReferenceClearedByOwnSocket ==
    facade.clearedBy = facade.clearedOf

(* C34: connectionType is 'tcp' only if connectWithAuth has succeeded on the
   socket the ZTCP instance holds. *)
TcpOnlyAfterAuth ==
    facade.connectionType = "tcp" => facade.authed

(* C36: an operation of the ZktecoJs object that was called while
   connectionType was null has been rejected with a ZkError. *)
UnconnectedCallRejectsWithZkError ==
    ( /\ facade.name = "executeCmd"
      /\ facade.pc = "done"
      /\ facade.calledWith = "null" )
    => /\ facade.outcome = "threw"
       /\ facade.err = "ZkError"

(* C39: every call of disconnect() of the ZktecoJs object returns true in the
   same step and leaves connectionType null, the interval and timer handles
   cleared and, if connectionType named the TCP transport, the socket reference
   of the ZTCP instance null; a call made when connectionType is null and no
   handle is set changes neither the object's fields nor the ZTCP instance. *)
FacadeDisconnectResets ==
    [][ ( /\ facade'.tick # facade.tick
          /\ facade'.name = "disconnect" )
        => /\ facade'.pc = "done"
           /\ facade'.outcome = "returned"
           /\ facade'.result = "true"
           /\ facade'.connectionType = "null"
           /\ ~facade'.interval
           /\ ~facade'.timer
           /\ (facade.connectionType = "tcp" => sock' = "null")
           /\ ( ( /\ facade.connectionType = "null"
                  /\ ~facade.interval
                  /\ ~facade.timer )
                => /\ UNCHANGED <<sock, timeout, sessionId, replyId, sent, served,
                                  inbox, events, calls, serial, rd, rb, now, op, rt,
                                  authTimestamp>>
                   /\ facade'.closing = facade.closing
                   /\ facade'.gen = facade.gen ) ]_vars

(* disconnect() was called on a connected object with both handles set and
   ended its socket, and was then called again *)
FacadeDisconnectResetsWitness ==
    /\ facade.name = "disconnect"
    /\ facade.pc = "done"
    /\ facade.result = "true"
    /\ facade.calledWith = "null"
    /\ facade.closing # {}
    /\ facade.connectionType = "null"
    /\ sock = "null"
    /\ ~facade.interval
    /\ ~facade.timer


(* C38: in every step of the chunk phase of readWithBuffer the counter
   totalPackets either keeps its value or goes down by exactly one, the latter
   exactly when a chunk was completed (the progress callback was called and
   the assembled data took the chunk); it is never negative, and the assembled
   data is never longer than the size the device announced. *)
ChunkCounterCountsDown ==
    [][ (rb.phase = "chunk" /\ rb'.phase = "chunk")
        => /\ rb'.totalPackets \in {rb.totalPackets, rb.totalPackets - 1}
           /\ (rb'.totalPackets = rb.totalPackets - 1
                 <=> Len(rb'.progress) = Len(rb.progress) + 1)
           /\ Len(rb'.progress) \in {Len(rb.progress), Len(rb.progress) + 1}
           /\ Len(rb'.replyData) >= Len(rb.replyData)
           /\ rb'.totalPackets >= 0
           /\ Len(rb'.replyData) <= rb'.size ]_vars

(* a read of two full chunks and a remainder has completed its three chunks:
   the counter is at zero and the assembled data has the announced size *)
ChunkCounterCountsDownWitness ==
    /\ rb.phase = "chunk"
    /\ rb.size = MaxSize
    /\ rb.totalPackets = 0
    /\ Len(rb.progress) = 3
    /\ Len(rb.replyData) = rb.size
    /\ rb.pst = "resolved"


(* C35: once readWithBuffer has settled and the socket is still open, no data
   listener of the bulk read (the one of requestData, the one of the chunk
   phase) is attached to the socket. *)
NoListenerAfterSettle ==
    (sock = "open" /\ BulkSettled) => (~rb.listener /\ ~rd.listener)


(* C37: when validateSession has returned true, a CMD_AUTH frame was written
   after the last CMD_CONNECT frame of the instance: the most recent connect
   was followed by an authentication. *)
ValidOnlyAfterAuth ==
    ( /\ op.name = "validateSession"
      /\ op.pc = "done"
      /\ op.result = <<TRUE>> )
    => \E i \in 1..Len(sent) :
          /\ CommandId(sent[i]) = CMD_AUTH
          /\ \A j \in (i + 1)..Len(sent) : CommandId(sent[j]) # CMD_CONNECT


(* C40: whatever the outcome of the exit command, the step in which disconnect()
   leaves its await of executeCmd(CMD_EXIT) is a call of closeSocket (a socket
   that is set is ended, its data listeners removed, and the method awaits the
   closure; without a socket the method returns); and when disconnect() throws,
   its error is the one of closeSocket, never the one of the exit command. *)
DisconnectAlwaysCloses ==
    [][ /\ ( /\ op.name = "disconnect"
             /\ op.pc = "exit"
             /\ op'.pc # "exit" )
           => /\ op'.name = "disconnect"
              /\ IF sock = "null"
                 THEN op'.pc = "done" /\ op'.outcome = "returned" /\ sock' = "null"
                 ELSE /\ op'.pc = "closing"
                      /\ sock' = "ended"
                      /\ \A c \in CallIds : ~calls'[c].listener
              /\ op'.err = "none"
        /\ ( /\ op'.name = "disconnect"
             /\ op'.outcome = "threw"
             /\ op.outcome # "threw" )
           => /\ op.name = "disconnect"
              /\ op.pc = "closing"
              /\ op'.err = "SOCKET_ERROR" ]_vars

(* the exit command was rejected, on a timeout or a failed write, and
   disconnect() went on to end the socket and returned *)
DisconnectAlwaysClosesWitness ==
    /\ op.name = "disconnect"
    /\ op.pc = "done"
    /\ op.outcome = "returned"
    /\ calls[1].cmd = CMD_EXIT
    /\ calls[1].pst = "rejected"
    /\ calls[1].err \in {"TIMEOUT_ON_WRITING_MESSAGE", "WRITE_ERROR"}
    /\ Len(sent) >= 1

=============================================================================
